---- MODULE Spec2Model ----
(***************************************************************************)
(* Stock reservation of the storefront backend: the variant ledger, the    *)
(* per-user cart with lazy expiry, checkout and the order status updates   *)
(* (admin REST endpoint and Telegram bot callbacks).                       *)
(*                                                                         *)
(* Every handler is a coroutine that is suspended at each database call.   *)
(* One action of the model is one database call together with the Python   *)
(* code that runs after it up to the next database call; the database      *)
(* applies each call atomically on one document.  A request occupies a     *)
(* slot from its first database call to its response.                      *)
(*                                                                         *)
(* There is one product; its document embeds the array of its variants.    *)
(***************************************************************************)
EXTENDS Integers, Sequences, FiniteSets, TLC

\* ---------------------------------------------------------------- bounds
InitStock == 2
MaxQty == 2
MaxOps == 4
MaxSeqOps == 5
MaxRaces == 1
MaxTime == 11
InitPrice == 3

\* ------------------------------------------------------ program constants
CART_EXPIRY_MINUTES == 10

Users == {"u1", "u2"}
Variants == {"v1", "v2"}
Slots == {"r1", "r2"}
\* the clock advances by an idle period that is exactly the expiry delay, or
\* one minute more
Delays == {CART_EXPIRY_MINUTES, CART_EXPIRY_MINUTES + 1}

OrderStatusValues == {"new", "processing", "accepted", "shipped", "done", "canceled"}

VARIABLES
  variants,   \* products.variants of the product: variant id -> quantity
  price,      \* products.price of the product
  carts,      \* carts collection: user id -> cart document (id 0: no document)
  orders,     \* orders collection: order id -> order document
  slots,      \* the requests in flight: slot -> locals of the coroutine
  now,        \* datetime.utcnow(), in minutes
  next_uid,   \* source of fresh ObjectIds and uuid4 tokens
  started,    \* the number of requests taken so far
  races,      \* the number of requests taken while another was suspended
  trip,       \* the round trip under observation: a customer's adds of a variant
  cart_docs,  \* carts collection: user id -> number of documents with that user_id
  ledger,     \* the ledger calls under observation: what they took and gave back
  products,   \* products collection: the ids of the documents it holds
  name,       \* products.name of the product
  sweep,      \* the cleanup_deleted_orders task: its position and its batch
  cache_state,\* cache_state collection: the version token (0: no document)
  rev,        \* categories and products collections: how often each was written
  cache,      \* process -> the _catalog_cache* globals of the catalog router
  lock,       \* process -> the task that holds _catalog_cache_lock ("": free)
  tasks,      \* the catalog requests in flight: task -> locals of the coroutine
  bumped,     \* per collection, the last write whose version bump is written
  store_status, \* store_status collection: its documents, in natural order
  listeners,  \* StoreStatusBroadcaster._listeners: the registered queues
  queues,     \* request -> the asyncio.Queue of its stream
  reqs,       \* the store requests in flight: request -> locals of the coroutine
  received,   \* request -> the updated_at of the events its stream has yielded
  writes      \* the number of writes to store_status so far (orders updated_at)

vars == <<variants, price, carts, orders, slots, now, next_uid, started, races, trip,
          cart_docs, ledger, products, name, sweep, cache_state, rev, cache, lock,
          tasks, bumped, store_status, listeners, queues, reqs, received, writes>>

\* the catalog fields that only the catalog endpoints of the admin write
catalog == <<products, name>>

\* the state of the background task and of the process-wide services
caching == <<cache_state, rev, cache, lock, tasks, bumped>>
broadcasting == <<store_status, listeners, queues, reqs, received, writes>>
services == <<sweep, caching, broadcasting>>

\* ------------------------------------------------------------- documents
\* a deleted_at field that does not exist
NoDate == -1
\* the background task before its first find
IdleSweep == [pc |-> "find", batch |-> <<>>, idx |-> 0]

\* two server processes; the tasks are the coroutines of their catalog router
Procs == {"a", "b"}
Tasks == {"a1", "a2", "b1"}
Proc(t) == IF t = "b1" THEN "b" ELSE "a"
Collections == {"categories", "products"}
\* a CatalogResponse is what was read of each collection; revision 0 of both
\* stands for None
NoPayload == [c \in Collections |-> 0]
\* the globals after the module is loaded; read is the token the task that
\* stored the payload had read before it loaded (history)
NoCache == [payload |-> NoPayload, expiration |-> 0, version |-> 0, read |-> 0]
NoTask == [op |-> "none", pc |-> "idle", ret |-> "", force |-> FALSE,
           current_version |-> 0, now |-> 0, first |-> "", data |-> NoPayload,
           payload |-> NoPayload, result |-> "", coll |-> "", wrote |-> 0,
           loaded |-> FALSE, seen |-> NoPayload, disturbed |-> FALSE,
           token0 |-> 0, bumped0 |-> NoPayload]
\* history kept in a task: loaded, it has loaded the catalog; seen, the
\* payload that a concurrent call, begun under the same version token, stored
\* while this one waited for the lock;
\* disturbed, that entry was expired when stored, or has expired or has been
\* cleared since; token0 and bumped0, the version token and the bumped
\* writes when the call began

\* a version token written by an earlier run of the server
StoredVersion == 1
\* _generate_cache_version: an ObjectId that no token has had
FreshVersion(uid) == StoredVersion + uid

CachingInit ==
  /\ cache_state = 0
  /\ rev = [c \in Collections |-> 1]
  /\ cache = [p \in Procs |-> NoCache]
  /\ lock = [p \in Procs |-> ""]
  /\ tasks = [t \in Tasks |-> NoTask]
  /\ bumped = [c \in Collections |-> 1]

\* the store requests: the slots in which a request on /store runs
StoreReqs == 1..3

\* find_one found no document
NoStatus == [id |-> 0, is_sleep_mode |-> FALSE, sleep_until |-> NoDate, updated_at |-> 0]

\* a slot without a request; got: get_or_create_store_status has returned
NoReq == [op |-> "", pc |-> "idle", doc |-> NoStatus, sleep |-> FALSE,
          until |-> NoDate, got |-> FALSE]

\* an empty store_status collection, a broadcaster without listeners
StoreInit ==
  /\ store_status = <<>>
  /\ listeners = {}
  /\ queues = [r \in StoreReqs |-> <<>>]
  /\ reqs = [r \in StoreReqs |-> NoReq]
  /\ received = [r \in StoreReqs |-> <<>>]
  /\ writes = 0

NoCart == [id |-> 0, items |-> <<>>, total_amount |-> 0, updated_at |-> 0]
NoOrder == [id |-> 0, user_id |-> "", status |-> "", items |-> <<>>,
            total_amount |-> 0, can_edit_address |-> FALSE,
            delivery_address |-> "", restores |-> 0, failed |-> 0, cancels |-> 0,
            deleted_at |-> NoDate]
NoVariants == [v \in Variants |-> 0]
NoTrip == [on |-> FALSE, user |-> "", variant |-> "", stock |-> 0, reclaimed |-> 0]
NoCall == [op |-> "", product_id |-> "", variant_id |-> "", quantity |-> 0,
           before |-> NoVariants, ret |-> FALSE]
NoLedger == [stock0 |-> NoVariants, out |-> NoVariants, back |-> NoVariants,
             call |-> NoCall]

IdleSlot == [op |-> "none", pc |-> "idle", user |-> "", variant |-> "", qty |-> 0,
             item_id |-> 0, order_id |-> 0, new_status |-> "", price |-> 0,
             cart |-> NoCart, pvars |-> NoVariants, doc |-> NoOrder, idx |-> 0,
             amt |-> 0, ret |-> "", expired |-> FALSE, result |-> "",
             stock0 |-> NoVariants, cart0 |-> NoCart, orders0 |-> {},
             product_id |-> "", address |-> "", name |-> "", notify |-> "",
             receipt |-> "", restored |-> 0]

\* ------------------------------------------------------------ pure helpers
RECURSIVE SumAmount(_)
SumAmount(items) ==
  IF items = <<>> THEN 0
  ELSE Head(items).price * Head(items).quantity + SumAmount(Tail(items))

\* a cart whose total is left as it was
KeepsTotal(cart) == cart

\* amounts are kept in hundredths, so rounding to two decimals keeps the sum
recalculate_total(cart) == [cart EXCEPT !.total_amount = SumAmount(cart.items)]

RECURSIVE Held(_, _)
\* the quantity that the items of a sequence hold for variant v
Held(items, v) ==
  IF items = <<>> THEN 0
  ELSE (IF Head(items).variant_id = v THEN Head(items).quantity ELSE 0)
       + Held(Tail(items), v)

\* a lookup that falls back on the first item
ItemIndexOrFirst(items, id) ==
  IF \E i \in 1..Len(items) : items[i].id = id
  THEN CHOOSE i \in 1..Len(items) :
         items[i].id = id /\ \A j \in 1..(i - 1) : items[j].id # id
  ELSE IF items # <<>> THEN 1 ELSE 0

ItemIndex(items, id) ==
  IF \E i \in 1..Len(items) : items[i].id = id
  THEN CHOOSE i \in 1..Len(items) :
         items[i].id = id /\ \A j \in 1..(i - 1) : items[j].id # id
  ELSE 0

ExistingIndex(items, v) ==
  IF \E i \in 1..Len(items) : items[i].variant_id = v
  THEN CHOOSE i \in 1..Len(items) :
         items[i].variant_id = v /\ \A j \in 1..(i - 1) : items[j].variant_id # v
  ELSE 0

WithoutItem(items, id) == SelectSeq(items, LAMBDA it : it.id # id)

\* ------------------------------------------------------------ the ledger
_update_variant_quantity(vs, v, quantity_diff, require_available) ==
  IF quantity_diff = 0 THEN vs
  ELSE IF v \in DOMAIN vs
          /\ ((quantity_diff < 0 /\ require_available) => vs[v] >= -quantity_diff)
       THEN [vs EXCEPT ![v] = @ + quantity_diff]
       ELSE vs

restore_variant_quantity(vs, v, quantity) ==
  IF quantity <= 0 THEN vs
  ELSE _update_variant_quantity(vs, v, quantity, FALSE)

\* ids of product documents as requests give them: "p1" is the product with
\* the variants, "p0" a product whose variants array is empty, "p9" a
\* well-formed id of no product, "bad" not an ObjectId
TheProduct == "p1"
ProductIds == {"p1", "p0", "p9", "bad"}
ProductsStored == {"p1", "p0"}
InitName == "n1"
ObjectIdIsValid(product_id) == product_id # "bad"

\* _update_variant_quantity with the product id it is given and the value it
\* returns: the update_one matches a product with that variant (and, for a
\* guarded decrement, with enough of it), modified_count tells whether it did
UpdateVariantQuantity(vs, product_id, v, quantity_diff, require_available) ==
  IF quantity_diff = 0 THEN [ret |-> TRUE, variants |-> vs]
  ELSE IF ~ObjectIdIsValid(product_id) THEN [ret |-> FALSE, variants |-> vs]
  ELSE IF product_id \notin products \/ product_id # TheProduct
       THEN [ret |-> FALSE, variants |-> vs]
  ELSE LET after == _update_variant_quantity(vs, v, quantity_diff, require_available)
       IN [ret |-> after # vs, variants |-> after]

\* a decrement whose update does not ask for the quantity to be available
DecrementUnguarded(vs, product_id, v, quantity) ==
  IF quantity <= 0 THEN [ret |-> TRUE, variants |-> vs]
  ELSE UpdateVariantQuantity(vs, product_id, v, -quantity, FALSE)

decrement_variant_quantity(vs, product_id, v, quantity) ==
  IF quantity <= 0 THEN [ret |-> TRUE, variants |-> vs]
  ELSE UpdateVariantQuantity(vs, product_id, v, -quantity, TRUE)

\* a restore that is applied to the product whatever the id it is given
RestoreAnyProduct(vs, product_id, v, quantity) ==
  restore_variant_quantity(vs, v, quantity)

\* restore_variant_quantity with the product id it is given
RestoreVariantQuantity(vs, product_id, v, quantity) ==
  IF quantity <= 0 THEN vs
  ELSE UpdateVariantQuantity(vs, product_id, v, quantity, FALSE).variants

\* deduct_variant_quantity of the cart router: a read of the product
\* document, a check, and a write of the whole variants array that was read
\* a decrement that is never refused
DeductNeverRejects(variant_quantity, quantity) == FALSE

DeductRejects(variant_quantity, quantity) == variant_quantity < quantity

\* a decrement that writes back the array it read
DeductWritesNothing(read, v, quantity) == read

DeductWrite(read, v, quantity) == [read EXCEPT ![v] = @ - quantity]

\* a stock check that also refuses a request for exactly the stock
AddRejectsAtStock(variant_quantity, quantity) == variant_quantity <= quantity

\* the stock check of add_to_cart on the product read at its start
AddRejects(variant_quantity, quantity) == variant_quantity < quantity

\* ---------------------------------------------------------------- expiry
\* an expiry that already holds at exactly CART_EXPIRY_MINUTES
IsExpiredAtLimit(cart, t) ==
  /\ cart.items # <<>>
  /\ t >= cart.updated_at + CART_EXPIRY_MINUTES

IsExpired(cart, t) ==
  /\ cart.items # <<>>
  /\ t > cart.updated_at + CART_EXPIRY_MINUTES

NewCart(t) == [id |-> 0, items |-> <<>>, total_amount |-> 0, updated_at |-> t]

\* ------------------------------------------------------------------ Init
Init ==
  /\ variants = [v \in Variants |-> InitStock]
  /\ price = InitPrice
  /\ carts = [u \in Users |-> NoCart]
  /\ orders = <<>>
  /\ slots = [s \in Slots |-> IdleSlot]
  /\ now = 0
  /\ next_uid = 1
  /\ started = 0
  /\ races = 0
  /\ trip = NoTrip
  /\ cart_docs = [u \in Users |-> 0]
  /\ ledger = NoLedger
  /\ products = ProductsStored
  /\ name = InitName
  /\ sweep = IdleSweep
  /\ CachingInit
  /\ StoreInit

AllIdle == \A s \in Slots : slots[s].pc = "idle"
NoneDone == \A s \in Slots : slots[s].pc # "done"
CanStart(s, limit) ==
  /\ slots[s].pc = "idle"
  /\ NoneDone
  /\ started < limit
  /\ AllIdle \/ races < MaxRaces

Finish(r, res) == [r EXCEPT !.pc = "done", !.result = res]

\* a merge that takes the price and the name of the product as they are now
MergedItemRepriced(item, r) ==
  [item EXCEPT !.quantity = @ + r.qty, !.price = r.price, !.product_name = r.name]

\* add_to_cart on an item the cart already holds for the product and variant
MergedItem(item, r) == [item EXCEPT !.quantity = @ + r.qty]

\* the slot after get_cart_document has returned `cart` to the handler, with
\* the handler's code run up to its next database call; uid is the uuid4
\* token a new item gets
AfterCartDocument(r, cart, t, uid) ==
  CASE r.op = "get" -> Finish([r EXCEPT !.cart = cart], "ok")
    [] r.op = "add" ->
         LET i == ExistingIndex(cart.items, r.variant)
             items2 == IF i # 0
                       THEN [cart.items EXCEPT ![i] = MergedItem(@, r)]
                       ELSE Append(cart.items,
                                   [id |-> uid, variant_id |-> r.variant,
                                    product_name |-> r.name,
                                    quantity |-> r.qty, price |-> r.price])
         IN [r EXCEPT !.cart = [cart EXCEPT !.items = items2],
                      !.amt = r.qty, !.pc = "deduct_find"]
    [] r.op = "update" ->
         LET i == ItemIndex(cart.items, r.item_id) IN
         IF i = 0 THEN Finish([r EXCEPT !.cart = cart], "not_found")
         ELSE LET diff == r.qty - cart.items[i].quantity IN
              IF diff # 0
              THEN [r EXCEPT !.cart = cart, !.variant = cart.items[i].variant_id,
                             !.amt = diff, !.pc = "upd_find"]
              ELSE [r EXCEPT !.cart = recalculate_total(
                                [cart EXCEPT !.items[i].quantity = r.qty,
                                             !.updated_at = t]),
                             !.variant = cart.items[i].variant_id,
                             !.pc = "save"]
    [] r.op = "remove" ->
         LET i == ItemIndex(cart.items, r.item_id) IN
         IF i = 0 THEN Finish([r EXCEPT !.cart = cart], "not_found")
         ELSE [r EXCEPT !.cart = cart, !.variant = cart.items[i].variant_id,
                        !.amt = cart.items[i].quantity, !.pc = "rm_restore"]

TakesUid(r, cart) == r.op = "add" /\ ExistingIndex(cart.items, r.variant) = 0

\* get_cart_document, its find_one: r is the slot of the coroutine
CartFind(s, r) ==
  LET c == carts[r.user] IN
  /\ IF c.id = 0
     THEN /\ slots' = [slots EXCEPT ![s] = [r EXCEPT !.cart = NewCart(now),
                                                     !.pc = "cart_insert"]]
          /\ UNCHANGED next_uid
     ELSE IF IsExpired(c, now)
     THEN /\ slots' = [slots EXCEPT ![s] = [r EXCEPT !.cart = c, !.idx = 1,
                                                     !.expired = TRUE,
                                                     !.ret = "cart_insert",
                                                     !.pc = "cleanup_restore"]]
          /\ UNCHANGED next_uid
     ELSE /\ slots' = [slots EXCEPT ![s] = AfterCartDocument(r, c, now, next_uid)]
          /\ next_uid' = IF TakesUid(r, c) THEN next_uid + 1 ELSE next_uid
  /\ UNCHANGED <<variants, price, carts, orders, now>>

GetCartDocument(s) ==
  /\ slots[s].pc = "cart_find"
  /\ NoneDone
  /\ CartFind(s, slots[s])
  /\ UNCHANGED <<started, races>>

\* cleanup_expired_cart, one restore of its loop
CleanupRestore(s) ==
  LET r == slots[s]
      it == r.cart.items[r.idx]
  IN
  /\ r.pc = "cleanup_restore"
  /\ NoneDone
  /\ variants' = RestoreVariantQuantity(variants, TheProduct, it.variant_id, it.quantity)
  /\ slots' = [slots EXCEPT ![s] =
                 IF r.idx < Len(r.cart.items)
                 THEN [r EXCEPT !.idx = r.idx + 1]
                 ELSE [r EXCEPT !.pc = "cleanup_delete"]]
  /\ UNCHANGED <<price, carts, orders, now, next_uid, started, races>>

\* cleanup_expired_cart, its delete_one; back in get_cart_document the new
\* cart is built, in get_cart the cart document is looked up again
CleanupDelete(s) ==
  LET r == slots[s] IN
  /\ r.pc = "cleanup_delete"
  /\ NoneDone
  /\ carts' = IF carts[r.user].id = r.cart.id
              THEN [carts EXCEPT ![r.user] = NoCart] ELSE carts
  /\ cart_docs' = IF carts[r.user].id = r.cart.id
                  THEN [cart_docs EXCEPT ![r.user] = @ - 1] ELSE cart_docs
  /\ slots' = [slots EXCEPT ![s] =
                 IF r.ret = "cart_insert"
                 THEN [r EXCEPT !.cart = NewCart(now), !.pc = "cart_insert"]
                 ELSE [r EXCEPT !.pc = "cart_find"]]
  /\ UNCHANGED <<variants, price, orders, now, next_uid, started, races>>

\* a carts collection without the unique index
NoUniqueIndex(cs, u) == FALSE

\* the unique index on carts.user_id refuses a second document of a user
DuplicateKey(cs, u) == cs[u].id # 0

\* get_cart_document, its insert_one under the unique index on user_id
CartInsert(s) ==
  LET r == slots[s]
      c == [r.cart EXCEPT !.id = next_uid]
  IN
  /\ r.pc = "cart_insert"
  /\ NoneDone
  /\ IF DuplicateKey(carts, r.user)
     THEN /\ slots' = [slots EXCEPT ![s] = Finish(r, "duplicate_key")]
          /\ UNCHANGED <<carts, cart_docs, next_uid, started, races>>
     ELSE /\ carts' = [carts EXCEPT ![r.user] = c]
          /\ cart_docs' = [cart_docs EXCEPT ![r.user] = @ + 1]
          /\ slots' = [slots EXCEPT ![s] = AfterCartDocument(r, c, now, next_uid + 1)]
          /\ next_uid' = IF TakesUid(r, c) THEN next_uid + 2 ELSE next_uid + 1
  /\ UNCHANGED <<variants, price, orders, now, started, races>>

\* GET /cart
StartGet(s, u, limit) ==
  LET r == [IdleSlot EXCEPT !.op = "get", !.user = u, !.stock0 = variants,
                            !.cart0 = carts[u]]
      c == carts[u]
  IN
  /\ CanStart(s, limit)
  /\ slots' = [slots EXCEPT ![s] =
                 IF c.id # 0 /\ IsExpired(c, now)
                 THEN [r EXCEPT !.cart = c, !.idx = 1, !.expired = TRUE,
                                !.ret = "cart_find", !.pc = "cleanup_restore"]
                 ELSE [r EXCEPT !.pc = "cart_find"]]
  /\ UNCHANGED <<variants, price, carts, orders, now, next_uid>>
  /\ started' = started + 1
  /\ races' = IF AllIdle THEN races ELSE races + 1

\* the checks of add_to_cart before its stock check, in their order: "" when
\* the request passes them
AddError(product_id, variant_id) ==
  IF ~ObjectIdIsValid(product_id) THEN "bad_product_id"
  ELSE IF product_id \notin products THEN "product_not_found"
  ELSE IF product_id # TheProduct THEN "no_variants"
  ELSE IF variant_id = "" THEN "variant_required"
  ELSE IF variant_id \notin Variants THEN "variant_not_found"
  ELSE ""

\* POST /cart
StartAdd(s, u, v, q, limit) ==
  LET r == [IdleSlot EXCEPT !.op = "add", !.user = u, !.product_id = TheProduct,
                            !.variant = v, !.qty = q,
                            !.price = price, !.name = name,
                            !.stock0 = variants, !.cart0 = carts[u]]
  IN
  /\ CanStart(s, limit)
  /\ AddError(TheProduct, v) = ""
  /\ slots' = [slots EXCEPT ![s] =
                 IF AddRejects(variants[v], q)
                 THEN Finish(r, "insufficient")
                 ELSE [r EXCEPT !.pc = "cart_find"]]
  /\ UNCHANGED <<variants, price, carts, orders, now, next_uid>>
  /\ started' = started + 1
  /\ races' = IF AllIdle THEN races ELSE races + 1

\* the cart as the handler leaves it after its stock change
Touched(r, t) ==
  CASE r.op = "add" -> recalculate_total([r.cart EXCEPT !.updated_at = t])
    [] r.op = "update" ->
         recalculate_total(
           [r.cart EXCEPT !.items[ItemIndex(r.cart.items, r.item_id)].quantity = r.qty,
                          !.updated_at = t])
    [] r.op = "remove" ->
         recalculate_total(
           [r.cart EXCEPT !.items = WithoutItem(r.cart.items, r.item_id),
                          !.updated_at = t])

\* find_one({_id}) on the products collection finds a document
ProductFound(product_id) == product_id \in products

\* deduct_variant_quantity, its find_one and check: nothing is written, and
\* nothing raised, when the product is not found
DeductFind(s) ==
  LET r == slots[s] IN
  /\ r.pc = "deduct_find"
  /\ NoneDone
  /\ slots' = [slots EXCEPT ![s] =
                 IF ~ProductFound(TheProduct)
                 THEN [r EXCEPT !.cart = Touched(r, now), !.pc = "save"]
                 ELSE IF DeductRejects(variants[r.variant], r.amt)
                 THEN Finish(r, "insufficient")
                 ELSE [r EXCEPT !.pvars = variants, !.pc = "deduct_write"]]
  /\ UNCHANGED <<variants, price, carts, orders, now, next_uid, started, races>>

\* deduct_variant_quantity, its update_one
DeductUpdate(s) ==
  LET r == slots[s] IN
  /\ r.pc = "deduct_write"
  /\ NoneDone
  /\ variants' = IF ProductFound(TheProduct)
                 THEN DeductWrite(r.pvars, r.variant, r.amt) ELSE variants
  /\ slots' = [slots EXCEPT ![s] = [r EXCEPT !.cart = Touched(r, now), !.pc = "save"]]
  /\ UNCHANGED <<price, carts, orders, now, next_uid, started, races>>

\* carts.update_one({_id}, {$set: cart}) and the response
SaveCart(s) ==
  LET r == slots[s] IN
  /\ r.pc = "save"
  /\ NoneDone
  /\ carts' = IF carts[r.user].id = r.cart.id
              THEN [carts EXCEPT ![r.user] = r.cart] ELSE carts
  /\ slots' = [slots EXCEPT ![s] = Finish(r, "ok")]
  /\ UNCHANGED <<variants, price, orders, now, next_uid, started, races>>

\* PATCH /cart/item
StartUpdate(s, u, id, q, limit) ==
  /\ CanStart(s, limit)
  /\ CartFind(s, [IdleSlot EXCEPT !.op = "update", !.user = u, !.item_id = id,
                                  !.qty = q, !.stock0 = variants,
                                  !.cart0 = carts[u]])
  /\ started' = started + 1
  /\ races' = IF AllIdle THEN races ELSE races + 1

\* update_cart_item, its find_one of the product
UpdateFind(s) ==
  LET r == slots[s] IN
  /\ r.pc = "upd_find"
  /\ NoneDone
  /\ slots' = [slots EXCEPT ![s] =
                 IF ~ProductFound(TheProduct)
                 THEN [r EXCEPT !.cart = Touched(r, now), !.pc = "save"]
                 ELSE IF r.amt > 0
                 THEN IF variants[r.variant] < r.amt
                      THEN Finish(r, "insufficient")
                      ELSE [r EXCEPT !.pc = "deduct_find"]
                 ELSE [r EXCEPT !.pc = "upd_restore"]]
  /\ UNCHANGED <<variants, price, carts, orders, now, next_uid, started, races>>

\* update_cart_item, the restore of a lowered quantity
UpdateRestore(s) ==
  LET r == slots[s] IN
  /\ r.pc = "upd_restore"
  /\ NoneDone
  /\ variants' = RestoreVariantQuantity(variants, TheProduct, r.variant, -r.amt)
  /\ slots' = [slots EXCEPT ![s] = [r EXCEPT !.cart = Touched(r, now), !.pc = "save"]]
  /\ UNCHANGED <<price, carts, orders, now, next_uid, started, races>>

\* DELETE /cart/item
StartRemove(s, u, id, limit) ==
  /\ CanStart(s, limit)
  /\ CartFind(s, [IdleSlot EXCEPT !.op = "remove", !.user = u, !.item_id = id,
                                  !.stock0 = variants, !.cart0 = carts[u]])
  /\ started' = started + 1
  /\ races' = IF AllIdle THEN races ELSE races + 1

\* remove_from_cart, the restore of the item
RemoveRestore(s) ==
  LET r == slots[s] IN
  /\ r.pc = "rm_restore"
  /\ NoneDone
  /\ variants' = RestoreVariantQuantity(variants, TheProduct, r.variant, r.amt)
  /\ slots' = [slots EXCEPT ![s] = [r EXCEPT !.cart = Touched(r, now), !.pc = "save"]]
  /\ UNCHANGED <<price, carts, orders, now, next_uid, started, races>>

\* the response has been sent: the coroutine is gone
Return(s) ==
  /\ slots[s].pc = "done"
  /\ slots' = [slots EXCEPT ![s] = IdleSlot]
  /\ UNCHANGED <<variants, price, carts, orders, now, next_uid, started, races>>

Tick(d) ==
  /\ NoneDone
  /\ now + d <= MaxTime
  /\ now' = now + d
  /\ UNCHANGED <<variants, price, carts, orders, slots, next_uid, started, races>>

\* ------------------------------------------------------------- checkout
PutOrder(os, id, doc) ==
  [x \in (DOMAIN os) \cup {id} |-> IF x = id THEN doc ELSE os[x]]

\* POST /order: get_cart of the orders router, which reads the cart document
\* as it is stored
StartOrder(s, u, limit) ==
  LET r == [IdleSlot EXCEPT !.op = "order", !.user = u, !.stock0 = variants,
                            !.cart0 = carts[u], !.orders0 = DOMAIN orders]
      c == carts[u]
  IN
  /\ CanStart(s, limit)
  /\ slots' = [slots EXCEPT ![s] =
                 IF c.id = 0 \/ c.items = <<>>
                 THEN Finish(r, "empty")
                 ELSE [r EXCEPT !.cart = c, !.pc = "order_check"]]
  /\ UNCHANGED <<variants, price, carts, orders, now, next_uid>>
  /\ started' = started + 1
  /\ races' = IF AllIdle THEN races ELSE races + 1

\* an availability check that also refuses a variant that is sold out
UnavailableAtZero(variant_quantity) == variant_quantity <= 0

\* create_order's check of a variant of the cart: the stock has been taken
\* when the item was added, so only a negative quantity is refused
Unavailable(variant_quantity) == variant_quantity < 0

\* create_order, the gathered reads of the products of the items; when they
\* pass, _save_payment_receipt puts the receipt in GridFS
OrderCheck(s) ==
  LET r == slots[s] IN
  /\ r.pc = "order_check"
  /\ NoneDone
  /\ slots' = [slots EXCEPT ![s] =
                 IF /\ ProductFound(TheProduct)
                    /\ \E i \in 1..Len(r.cart.items) :
                         Unavailable(variants[r.cart.items[i].variant_id])
                 THEN Finish(r, "unavailable")
                 ELSE [r EXCEPT !.receipt = "stored", !.pc = "order_insert"]]
  /\ UNCHANGED <<variants, price, carts, orders, now, next_uid, started, races>>

\* create_order, its insert_one
OrderInsert(s) ==
  LET r == slots[s]
      doc == [id |-> next_uid, user_id |-> r.user, status |-> "processing",
              items |-> r.cart.items, total_amount |-> r.cart.total_amount,
              can_edit_address |-> TRUE, delivery_address |-> "a0",
              restores |-> 0, failed |-> 0, cancels |-> 0, deleted_at |-> NoDate]
  IN
  /\ r.pc = "order_insert"
  /\ NoneDone
  /\ orders' = PutOrder(orders, next_uid, doc)
  /\ next_uid' = next_uid + 1
  /\ slots' = [slots EXCEPT ![s] = [r EXCEPT !.order_id = next_uid, !.doc = doc,
                                             !.pc = "order_delete_cart"]]
  /\ UNCHANGED <<variants, price, carts, now, started, races>>

\* what the Bot API does with a notification: it delivers it, it answers
\* that it did not, or the call raises
NotifyOutcomes == {"delivered", "refused", "raised"}

\* a handler that lets the exception of a notification escape
NotifyFailurePropagates(outcome) == IF outcome = "raised" THEN "error" ELSE "ok"

\* the answer of a handler after its notification: the notifiers log what
\* fails and the handlers catch what the notifiers raise
AnswerAfterNotify(outcome) == "ok"

\* create_order, its carts.delete_one, the find_one of the order, the
\* notification of the admins and the response
OrderFinish(s, outcome) ==
  LET r == slots[s] IN
  /\ r.pc = "order_delete_cart"
  /\ NoneDone
  /\ carts' = IF carts[r.user].id = r.cart.id
              THEN [carts EXCEPT ![r.user] = NoCart] ELSE carts
  /\ cart_docs' = IF carts[r.user].id = r.cart.id
                  THEN [cart_docs EXCEPT ![r.user] = @ - 1] ELSE cart_docs
  /\ slots' = [slots EXCEPT ![s] =
                 Finish([r EXCEPT !.notify = outcome], AnswerAfterNotify(outcome))]
  /\ UNCHANGED <<variants, price, orders, now, next_uid, started, races>>

\* ... with a Bot API that delivers
OrderDeleteCart(s) == OrderFinish(s, "delivered")

\* what the compensation of create_order leaves of the receipt
\* a compensation that leaves the receipt in GridFS
ReceiptKept == "stored"

ReceiptAfterFailure == "deleted"

\* create_order, its insert_one raises: the receipt is deleted from GridFS
\* and the exception is raised again
OrderInsertFails(s) ==
  LET r == slots[s] IN
  /\ r.pc = "order_insert"
  /\ NoneDone
  /\ slots' = [slots EXCEPT ![s] =
                 Finish([r EXCEPT !.receipt = ReceiptAfterFailure], "insert_failed")]
  /\ UNCHANGED <<variants, price, carts, orders, now, next_uid, started, races>>

\* ------------------------------------------------------- status updates
EditableStatuses == {"new", "processing"}

\* a cancellation that restores only what has not been accepted
RestoresUnaccepted(new_status, old_status) ==
  new_status = "canceled" /\ old_status \notin {"canceled", "accepted"}

\* a cancellation restores the items when the order it read is not canceled
Restores(new_status, old_status) ==
  new_status = "canceled" /\ old_status # "canceled"

\* the legacy cancel callback refuses these statuses
LegacyCancelRefused == {"shipped", "done", "canceled"}

\* a handler that goes to the write of the status with its restores pending
BeginStatusWriteFirst(r, doc, st, restoring) ==
  [r EXCEPT !.doc = doc, !.new_status = st, !.idx = 1, !.pc = "status_write"]

BeginStatus(r, doc, st, restoring) ==
  IF restoring
  THEN [r EXCEPT !.doc = doc, !.new_status = st, !.idx = 1, !.pc = "status_restore"]
  ELSE [r EXCEPT !.doc = doc, !.new_status = st, !.pc = "status_write"]

\* PATCH /admin/order/{id}/status, its find_one
StartAdminStatus(s, o, st, limit) ==
  LET r == [IdleSlot EXCEPT !.op = "admin_status", !.order_id = o, !.stock0 = variants]
      doc == orders[o]
  IN
  /\ CanStart(s, limit)
  /\ slots' = [slots EXCEPT ![s] = BeginStatus(r, doc, st, Restores(st, doc.status))]
  /\ UNCHANGED <<variants, price, carts, orders, now, next_uid>>
  /\ started' = started + 1
  /\ races' = IF AllIdle THEN races ELSE races + 1

\* bot callback status|<order>|<status>, its find_one
StartBotStatus(s, o, st, limit) ==
  LET r == [IdleSlot EXCEPT !.op = "bot_status", !.order_id = o, !.stock0 = variants]
      doc == orders[o]
  IN
  /\ CanStart(s, limit)
  /\ slots' = [slots EXCEPT ![s] =
                 IF doc.status = st
                 THEN Finish([r EXCEPT !.doc = doc, !.new_status = st], "same_status")
                 ELSE BeginStatus(r, doc, st, Restores(st, doc.status))]
  /\ UNCHANGED <<variants, price, carts, orders, now, next_uid>>
  /\ started' = started + 1
  /\ races' = IF AllIdle THEN races ELSE races + 1

\* bot callback accept_order_<order>, its find_one
StartBotAccept(s, o, limit) ==
  LET r == [IdleSlot EXCEPT !.op = "bot_accept", !.order_id = o, !.stock0 = variants]
  IN
  /\ CanStart(s, limit)
  /\ slots' = [slots EXCEPT ![s] = BeginStatus(r, orders[o], "accepted", FALSE)]
  /\ UNCHANGED <<variants, price, carts, orders, now, next_uid>>
  /\ started' = started + 1
  /\ races' = IF AllIdle THEN races ELSE races + 1

\* bot callback cancel_order_<order>, its find_one
StartBotCancel(s, o, limit) ==
  LET r == [IdleSlot EXCEPT !.op = "bot_cancel", !.order_id = o, !.stock0 = variants]
      doc == orders[o]
  IN
  /\ CanStart(s, limit)
  /\ slots' = [slots EXCEPT ![s] =
                 IF doc.status \in LegacyCancelRefused
                 THEN Finish([r EXCEPT !.doc = doc, !.new_status = "canceled"], "refused")
                 ELSE BeginStatus(r, doc, "canceled", TRUE)]
  /\ UNCHANGED <<variants, price, carts, orders, now, next_uid>>
  /\ started' = started + 1
  /\ races' = IF AllIdle THEN races ELSE races + 1

\* one restore of the loop over the items of the order that was read
StatusRestore(s) ==
  LET r == slots[s]
      it == r.doc.items[r.idx]
  IN
  /\ r.pc = "status_restore"
  /\ NoneDone
  /\ variants' = RestoreVariantQuantity(variants, TheProduct, it.variant_id, it.quantity)
  /\ orders' = IF r.idx = 1
               THEN [orders EXCEPT ![r.order_id].restores = @ + 1] ELSE orders
  /\ slots' = [slots EXCEPT ![s] =
                 IF r.idx < Len(r.doc.items)
                 THEN [r EXCEPT !.idx = r.idx + 1, !.restored = @ + 1]
                 ELSE [r EXCEPT !.restored = @ + 1, !.pc = "status_write"]]
  /\ UNCHANGED <<price, carts, now, next_uid, started, races>>

CanEditAfter(op, st) ==
  IF op \in {"bot_accept", "bot_cancel"} THEN FALSE ELSE st \in EditableStatuses

\* the bot callbacks call notify_customer_order_status after their write,
\* the admin endpoint returns the order
Notified(op, outcome) == IF op = "admin_status" THEN "" ELSE outcome

\* find_one_and_update of the status, the notification of the customer and
\* the response
StatusCommit(s, outcome) ==
  LET r == slots[s] IN
  /\ r.pc = "status_write"
  /\ NoneDone
  /\ orders' = [orders EXCEPT ![r.order_id].status = r.new_status,
                              ![r.order_id].can_edit_address =
                                 CanEditAfter(r.op, r.new_status),
                              ![r.order_id].cancels =
                                 IF r.new_status = "canceled" THEN @ + 1 ELSE @]
  /\ slots' = [slots EXCEPT ![s] =
                 Finish([r EXCEPT !.notify = Notified(r.op, outcome)],
                        IF r.op = "admin_status" THEN "ok"
                        ELSE AnswerAfterNotify(outcome))]
  /\ UNCHANGED <<variants, price, carts, now, next_uid, started, races>>

\* ... with a Bot API that delivers
StatusWrite(s) == StatusCommit(s, "delivered")

\* the answer when find_one_and_update raises: the admin endpoint lets the
\* exception through, the webhook catches it and answers ok
AnswerAfterError(op) == IF op = "admin_status" THEN "error" ELSE "ok"

\* find_one_and_update of the status raises: nothing is written
StatusWriteFails(s) ==
  LET r == slots[s] IN
  /\ r.pc = "status_write"
  /\ NoneDone
  /\ orders' = [orders EXCEPT ![r.order_id].failed =
                                 IF r.restored > 0 THEN @ + 1 ELSE @]
  /\ slots' = [slots EXCEPT ![s] =
                 Finish([r EXCEPT !.notify = "", !.ret = "write_failed"],
                        AnswerAfterError(r.op))]
  /\ UNCHANGED <<variants, price, carts, now, next_uid, started, races>>

\* PATCH /order/{id}/address, its find_one and checks
AddressEditableStatuses == {"processing"}

StartAddress(s, o, u, a, limit) ==
  LET doc == orders[o]
      r == [IdleSlot EXCEPT !.op = "address", !.order_id = o, !.user = u,
                            !.address = a, !.doc = doc, !.stock0 = variants]
  IN
  /\ CanStart(s, limit)
  /\ slots' = [slots EXCEPT ![s] =
                 IF doc.user_id # u THEN Finish(r, "not_found")
                 ELSE IF doc.status \notin AddressEditableStatuses
                 THEN Finish(r, "not_editable")
                 ELSE [r EXCEPT !.pc = "address_write"]]
  /\ UNCHANGED <<variants, price, carts, orders, now, next_uid>>
  /\ started' = started + 1
  /\ races' = IF AllIdle THEN races ELSE races + 1

\* update_order_address, its find_one_and_update and the response
AddressWrite(s) ==
  LET r == slots[s] IN
  /\ r.pc = "address_write"
  /\ NoneDone
  /\ orders' = [orders EXCEPT ![r.order_id].delivery_address = r.address,
                              ![r.order_id].can_edit_address = TRUE]
  /\ slots' = [slots EXCEPT ![s] = Finish(r, "ok")]
  /\ UNCHANGED <<variants, price, carts, now, next_uid, started, races>>

\* ------------------------------------------------ requests add_to_cart refuses
\* POST /cart with a request that fails one of these checks
StartAddRejected(s, u, product_id, variant_id, q, limit) ==
  LET r == [IdleSlot EXCEPT !.op = "add", !.user = u, !.product_id = product_id,
                            !.variant = variant_id, !.qty = q,
                            !.stock0 = variants, !.cart0 = carts[u]]
  IN
  /\ CanStart(s, limit)
  /\ AddError(product_id, variant_id) # ""
  /\ slots' = [slots EXCEPT ![s] = Finish(r, AddError(product_id, variant_id))]
  /\ UNCHANGED <<variants, price, carts, orders, now, next_uid>>
  /\ started' = started + 1
  /\ races' = IF AllIdle THEN races ELSE races + 1

\* ------------------------------------------------------------------ Next
IssuedIds == 1..(next_uid - 1)
Quantities == 1..MaxQty
CartItemIds(u) == {carts[u].items[i].id : i \in 1..Len(carts[u].items)}

\* the steps that insert or delete a cart document
StepCarts(s) ==
  \/ CleanupDelete(s)
  \/ CartInsert(s)
  \/ OrderDeleteCart(s)

StepOther(s) ==
  \/ GetCartDocument(s)
  \/ CleanupRestore(s)
  \/ DeductFind(s)
  \/ DeductUpdate(s)
  \/ SaveCart(s)
  \/ UpdateFind(s)
  \/ UpdateRestore(s)
  \/ RemoveRestore(s)
  \/ OrderCheck(s)
  \/ OrderInsert(s)
  \/ StatusRestore(s)
  \/ StatusWrite(s)
  \/ AddressWrite(s)
  \/ Return(s)

Step(s) ==
  \/ StepCarts(s)
  \/ StepOther(s) /\ UNCHANGED cart_docs

\* requests that add_to_cart refuses before its stock check, and addresses
RejectedAdds == {<<"bad", "v1">>, <<"p9", "v1">>, <<"p0", "v1">>,
                 <<"p1", "">>, <<"p1", "v9">>, <<"p1", "v1">>}
Addresses == {"a1"}

\* ---- the round trip under observation (history): the stock of a variant
\* ---- before the add that puts a new item of it in a customer's cart, kept
\* ---- over the customer's further adds of that variant and removals,
\* ---- dropped by any other request
TripAtAdd(u, v) ==
  LET expired == carts[u].id # 0 /\ IsExpired(carts[u], now) IN
  IF trip.on /\ trip.user = u /\ trip.variant = v THEN trip
  ELSE IF ~expired /\ Held(carts[u].items, v) # 0 THEN NoTrip
  ELSE [on |-> TRUE, user |-> u, variant |-> v, stock |-> variants[v],
        reclaimed |-> IF expired THEN Held(carts[u].items, v) ELSE 0]

\* ---- requests issued one after another, by one customer and the admins
SeqUsers == {"u1"}

StartSeq(s) ==
  \/ \E u \in SeqUsers : StartGet(s, u, MaxSeqOps) /\ trip' = NoTrip
  \/ \E u \in SeqUsers, v \in Variants, q \in Quantities :
       StartAdd(s, u, v, q, MaxSeqOps) /\ trip' = TripAtAdd(u, v)
  \/ \E u \in SeqUsers, id \in IssuedIds, q \in Quantities :
       StartUpdate(s, u, id, q, MaxSeqOps) /\ trip' = NoTrip
  \/ \E u \in SeqUsers, id \in IssuedIds :
       StartRemove(s, u, id, MaxSeqOps) /\ UNCHANGED trip
  \/ \E u \in SeqUsers : StartOrder(s, u, MaxSeqOps) /\ trip' = NoTrip
  \/ \E o \in DOMAIN orders, st \in OrderStatusValues :
       StartAdminStatus(s, o, st, MaxSeqOps) /\ trip' = NoTrip
  \/ \E o \in DOMAIN orders, st \in OrderStatusValues :
       StartBotStatus(s, o, st, MaxSeqOps) /\ trip' = NoTrip
  \/ \E o \in DOMAIN orders : StartBotAccept(s, o, MaxSeqOps) /\ trip' = NoTrip
  \/ \E o \in DOMAIN orders : StartBotCancel(s, o, MaxSeqOps) /\ trip' = NoTrip
  \/ \E o \in DOMAIN orders, u \in Users, a \in Addresses :
       StartAddress(s, o, u, a, MaxSeqOps) /\ trip' = NoTrip
  \/ \E u \in SeqUsers, pv \in RejectedAdds :
       StartAddRejected(s, u, pv[1], pv[2], 1, MaxSeqOps) /\ trip' = NoTrip

NextSeq ==
  \/ \E s \in Slots : AllIdle /\ StartSeq(s) /\ UNCHANGED <<cart_docs, ledger, catalog, services>>
  \/ \E s \in Slots : Step(s) /\ UNCHANGED <<trip, ledger, catalog, services>>
  \/ \E d \in Delays :
       AllIdle /\ Tick(d) /\ UNCHANGED <<trip, cart_docs, ledger, catalog, services>>

SpecSeq == Init /\ [][NextSeq]_vars

\* ---- requests taken while another is suspended: two customers compete for
\* ---- the stock of one variant, cancellations arrive through every entry point
RaceStatuses == {"accepted", "canceled"}
RaceVariants == {"v1"}

Start(s) ==
  \/ \E u \in Users : StartGet(s, u, MaxOps)
  \/ \E u \in Users, v \in RaceVariants, q \in Quantities : StartAdd(s, u, v, q, MaxOps)
  \/ \E u \in Users : \E id \in CartItemIds(u), q \in Quantities :
       StartUpdate(s, u, id, q, MaxOps)
  \/ \E u \in Users : \E id \in CartItemIds(u) : StartRemove(s, u, id, MaxOps)
  \/ \E u \in Users : StartOrder(s, u, MaxOps)
  \/ \E o \in DOMAIN orders, st \in RaceStatuses : StartAdminStatus(s, o, st, MaxOps)
  \/ \E o \in DOMAIN orders, st \in RaceStatuses : StartBotStatus(s, o, st, MaxOps)
  \/ \E o \in DOMAIN orders : StartBotAccept(s, o, MaxOps)
  \/ \E o \in DOMAIN orders, a \in Addresses :
       StartAddress(s, o, orders[o].user_id, a, MaxOps)
  \/ \E u \in SeqUsers, pv \in RejectedAdds :
       StartAddRejected(s, u, pv[1], pv[2], 1, MaxOps)

\* the clock is in minutes: it advances between requests
Next ==
  \/ \E s \in Slots : Start(s) /\ UNCHANGED <<trip, cart_docs, ledger, catalog, services>>
  \/ \E s \in Slots : Step(s) /\ UNCHANGED <<trip, ledger, catalog, services>>
  \/ \E d \in Delays :
       AllIdle /\ Tick(d) /\ UNCHANGED <<trip, cart_docs, ledger, catalog, services>>

Spec == Init /\ [][Next]_vars

\* ---- the catalog endpoints of the admin between the requests of a customer
MaxCatalogOps == 4
Prices == {InitPrice, InitPrice + 1}
Names == {InitName, "n2"}

\* PATCH /admin/product/{id} with a price and a name: find_one_and_update
\* with $set of the payload, 404 when there is no such product
UpdateProduct(product_id, p, n, limit) ==
  /\ AllIdle
  /\ started < limit
  /\ price' = IF ProductFound(product_id) /\ product_id = TheProduct THEN p ELSE price
  /\ name' = IF ProductFound(product_id) /\ product_id = TheProduct THEN n ELSE name
  /\ started' = started + 1
  /\ UNCHANGED <<variants, carts, orders, slots, now, next_uid, races, products>>

\* DELETE /admin/product/{id}: delete_one, 404 when there is no such product;
\* variants and price keep what the document held
DeleteProduct(product_id, limit) ==
  /\ AllIdle
  /\ started < limit
  /\ products' = products \ {product_id}
  /\ started' = started + 1
  /\ UNCHANGED <<variants, price, carts, orders, slots, now, next_uid, races, name>>

StartCatalog(s) ==
  \/ \E u \in SeqUsers : StartGet(s, u, MaxCatalogOps)
  \/ \E u \in SeqUsers, v \in Variants, q \in Quantities :
       StartAdd(s, u, v, q, MaxCatalogOps)
  \/ \E u \in SeqUsers, id \in IssuedIds, q \in Quantities :
       StartUpdate(s, u, id, q, MaxCatalogOps)
  \/ \E u \in SeqUsers, id \in IssuedIds : StartRemove(s, u, id, MaxCatalogOps)
  \/ \E u \in SeqUsers : StartOrder(s, u, MaxCatalogOps)
  \/ \E u \in SeqUsers, pv \in RejectedAdds :
       StartAddRejected(s, u, pv[1], pv[2], 1, MaxCatalogOps)

StepCatalog(s) ==
  \/ StepCarts(s)
  \/ /\ \/ GetCartDocument(s)
        \/ CleanupRestore(s)
        \/ DeductFind(s)
        \/ DeductUpdate(s)
        \/ SaveCart(s)
        \/ UpdateFind(s)
        \/ UpdateRestore(s)
        \/ RemoveRestore(s)
        \/ OrderCheck(s)
        \/ OrderInsert(s)
        \/ Return(s)
     /\ UNCHANGED cart_docs

NextCatalog ==
  \/ \E s \in Slots :
       AllIdle /\ StartCatalog(s) /\ UNCHANGED <<trip, cart_docs, ledger, catalog, services>>
  \/ \E s \in Slots : StepCatalog(s) /\ UNCHANGED <<trip, ledger, catalog, services>>
  \/ \E d \in Delays :
       AllIdle /\ Tick(d) /\ UNCHANGED <<trip, cart_docs, ledger, catalog, services>>
  \/ \E p \in Prices, n \in Names :
       UpdateProduct(TheProduct, p, n, MaxCatalogOps)
         /\ UNCHANGED <<trip, cart_docs, ledger, services>>
  \/ DeleteProduct(TheProduct, MaxCatalogOps) /\ UNCHANGED <<trip, cart_docs, ledger, services>>

SpecCatalog == Init /\ [][NextCatalog]_vars

\* ---- requests issued one after another with a database whose writes of
\* ---- orders can raise and a Bot API that can fail; a request meets at most
\* ---- one call that raises
MaxFaultOps == 4

StartFaults(s) ==
  \/ \E u \in SeqUsers, v \in Variants, q \in Quantities :
       StartAdd(s, u, v, q, MaxFaultOps)
  \/ \E u \in SeqUsers : StartOrder(s, u, MaxFaultOps)
  \/ \E o \in DOMAIN orders, st \in OrderStatusValues :
       StartAdminStatus(s, o, st, MaxFaultOps)
  \/ \E o \in DOMAIN orders, st \in OrderStatusValues :
       StartBotStatus(s, o, st, MaxFaultOps)
  \/ \E o \in DOMAIN orders : StartBotAccept(s, o, MaxFaultOps)
  \/ \E o \in DOMAIN orders : StartBotCancel(s, o, MaxFaultOps)

StepFaults(s) ==
  \/ CartInsert(s)
  \/ \E outcome \in NotifyOutcomes : OrderFinish(s, outcome)
  \/ /\ \/ GetCartDocument(s)
        \/ DeductFind(s)
        \/ DeductUpdate(s)
        \/ SaveCart(s)
        \/ OrderCheck(s)
        \/ OrderInsert(s)
        \/ OrderInsertFails(s)
        \/ StatusRestore(s)
        \/ \E outcome \in NotifyOutcomes : StatusCommit(s, outcome)
        \/ StatusWriteFails(s)
        \/ Return(s)
     /\ UNCHANGED cart_docs

NextFaults ==
  \/ \E s \in Slots :
       AllIdle /\ StartFaults(s) /\ UNCHANGED <<trip, cart_docs, ledger, catalog, services>>
  \/ \E s \in Slots : StepFaults(s) /\ UNCHANGED <<trip, ledger, catalog, services>>

SpecFaults == Init /\ [][NextFaults]_vars

\* ---- requests taken while another is suspended, on both variants of the
\* ---- product: reservations (add, update) and releases (update, remove,
\* ---- expiry, cancellation) of one variant next to those of its sibling
MaxSiblingOps == 3

StartSiblings(s) ==
  \/ \E u \in Users : StartGet(s, u, MaxSiblingOps)
  \/ \E u \in Users, v \in Variants, q \in Quantities :
       StartAdd(s, u, v, q, MaxSiblingOps)
  \/ \E u \in Users : \E id \in CartItemIds(u), q \in Quantities :
       StartUpdate(s, u, id, q, MaxSiblingOps)
  \/ \E u \in Users : \E id \in CartItemIds(u) : StartRemove(s, u, id, MaxSiblingOps)
  \/ \E u \in Users : StartOrder(s, u, MaxSiblingOps)
  \/ \E o \in DOMAIN orders : StartAdminStatus(s, o, "canceled", MaxSiblingOps)

StepSiblings(s) ==
  \/ StepCarts(s)
  \/ /\ \/ GetCartDocument(s)
        \/ CleanupRestore(s)
        \/ DeductFind(s)
        \/ DeductUpdate(s)
        \/ SaveCart(s)
        \/ UpdateFind(s)
        \/ UpdateRestore(s)
        \/ RemoveRestore(s)
        \/ OrderCheck(s)
        \/ OrderInsert(s)
        \/ StatusRestore(s)
        \/ StatusWrite(s)
        \/ Return(s)
     /\ UNCHANGED cart_docs

NextSiblings ==
  \/ \E s \in Slots :
       StartSiblings(s) /\ UNCHANGED <<trip, cart_docs, ledger, catalog, services>>
  \/ \E s \in Slots : StepSiblings(s) /\ UNCHANGED <<trip, ledger, catalog, services>>
  \/ \E d \in Delays :
       AllIdle /\ Tick(d) /\ UNCHANGED <<trip, cart_docs, ledger, catalog, services>>

SpecSiblings == Init /\ [][NextSiblings]_vars

\* ---- the background task cleanup_deleted_orders: every minute it finds a
\* ---- batch of orders whose deleted_at is at least ten minutes old and
\* ---- purges them one by one.  The soft delete of the admin and
\* ---- permanently_delete_order_entry are not part of the sources at hand:
\* ---- they are modelled from the specification.
PURGE_GRACE_MINUTES == 10
SLEEP_MINUTES == 1
\* to_list(length=100), scaled to the number of orders of the model
BatchLength == 2
MaxSweepOrders == 3
SweepOrderIds == 1..MaxSweepOrders
SweepStatuses == {"processing", "done", "canceled"}
Outcomes == {"ok", "raises"}

\* the collection holds orders of a customer, none of them soft-deleted; the
\* product has been restocked since
InitSweep ==
  /\ variants = [v \in Variants |-> InitStock]
  /\ price = InitPrice
  /\ carts = [u \in Users |-> NoCart]
  /\ \E st \in [SweepOrderIds -> SweepStatuses] :
       orders = [o \in SweepOrderIds |->
                   [NoOrder EXCEPT
                      !.id = o, !.user_id = "u1", !.status = st[o],
                      !.items = <<[id |-> MaxSweepOrders + o, variant_id |-> "v1",
                                   product_name |-> InitName, quantity |-> 1,
                                   price |-> InitPrice]>>,
                      !.total_amount = InitPrice,
                      !.delivery_address = "a0"]]
  /\ slots = [s \in Slots |-> IdleSlot]
  /\ now = 0
  /\ next_uid = 2 * MaxSweepOrders + 1
  /\ started = 0
  /\ races = 0
  /\ trip = NoTrip
  /\ cart_docs = [u \in Users |-> 0]
  /\ ledger = NoLedger
  /\ products = ProductsStored
  /\ name = InitName
  /\ sweep = IdleSweep
  /\ CachingInit
  /\ StoreInit

\* the admin's soft delete: it sets the marker of an order that has none and
\* leaves the status as it is; a marker set too late to come of age before
\* the horizon of the model is left out
SoftDeleteOrder(o) ==
  /\ o \in DOMAIN orders
  /\ orders[o].deleted_at = NoDate
  /\ now + PURGE_GRACE_MINUTES <= MaxTime
  /\ orders' = [orders EXCEPT ![o].deleted_at = now]
  /\ UNCHANGED <<now, sweep>>

\* a filter that does not look at the age of the marker
MarkedForPurge(order_doc, cutoff_time) == order_doc.deleted_at # NoDate

\* the filter of the find: {"deleted_at": {"$exists": True, "$lte": cutoff_time}}
DueForPurge(order_doc, cutoff_time) ==
  order_doc.deleted_at # NoDate /\ order_doc.deleted_at <= cutoff_time

\* to_list(length=...) of a find without a sort: the documents that match, in
\* any order, cut at the length
Batches(due) ==
  {b \in UNION {[1..n -> due] : n \in 0..BatchLength} :
     /\ Len(b) = IF Cardinality(due) < BatchLength
                 THEN Cardinality(due) ELSE BatchLength
     /\ \A i, j \in 1..Len(b) : i # j => b[i] # b[j]}

\* one iteration of the loop, its find
SweepFind ==
  LET cutoff_time == now - PURGE_GRACE_MINUTES
      due == {o \in DOMAIN orders : DueForPurge(orders[o], cutoff_time)}
  IN
  /\ sweep.pc = "find"
  /\ \E b \in Batches(due) :
       sweep' = IF b = <<>> THEN [IdleSweep EXCEPT !.pc = "sleep"]
                ELSE [pc |-> "purge", idx |-> 1,
                      batch |-> [i \in 1..Len(b) |-> orders[b[i]]]]
  /\ UNCHANGED <<orders, now>>

\* get_db or the find raises: the outer except logs and sleeps
SweepFindFails ==
  /\ sweep.pc = "find"
  /\ sweep' = [IdleSweep EXCEPT !.pc = "sleep"]
  /\ UNCHANGED <<orders, now>>

\* permanently_delete_order_entry: the order document is removed
permanently_delete_order_entry(os, order_doc) ==
  [x \in (DOMAIN os) \ {order_doc.id} |-> os[x]]

\* the for loop: the inner except logs, the loop goes on with the next order
NextInBatch(sw) ==
  IF sw.idx < Len(sw.batch) THEN [sw EXCEPT !.idx = @ + 1]
  ELSE [IdleSweep EXCEPT !.pc = "sleep"]

\* one purge of the for loop
SweepPurge(outcome) ==
  /\ sweep.pc = "purge"
  /\ orders' = IF outcome = "ok"
               THEN permanently_delete_order_entry(orders, sweep.batch[sweep.idx])
               ELSE orders
  /\ sweep' = NextInBatch(sweep)
  /\ UNCHANGED now

\* asyncio.sleep(60); the clock stops at the horizon of the model
SweepSleep ==
  /\ sweep.pc = "sleep"
  /\ sweep' = IdleSweep
  /\ now' = IF now + SLEEP_MINUTES <= MaxTime THEN now + SLEEP_MINUTES ELSE now
  /\ UNCHANGED orders

sweep_frame == <<variants, price, carts, slots, next_uid, started, races, trip,
                 cart_docs, ledger, catalog, caching, broadcasting>>

NextSweep ==
  \/ \E o \in SweepOrderIds : SoftDeleteOrder(o) /\ UNCHANGED sweep_frame
  \/ SweepFind /\ UNCHANGED sweep_frame
  \/ SweepFindFails /\ UNCHANGED sweep_frame
  \/ \E outcome \in Outcomes : SweepPurge(outcome) /\ UNCHANGED sweep_frame
  \/ SweepSleep /\ UNCHANGED sweep_frame

SpecSweep == InitSweep /\ [][NextSweep]_vars

\* a step of the task
SweepStep ==
  /\ \/ SweepFind
     \/ SweepFindFails
     \/ \E outcome \in Outcomes : SweepPurge(outcome)
     \/ SweepSleep
  /\ UNCHANGED sweep_frame

\* the purge of order o goes through
PurgeOk(o) ==
  SweepPurge("ok") /\ sweep.batch[sweep.idx].id = o /\ UNCHANGED sweep_frame

\* the event loop keeps the task running (a step of the task that can be
\* taken is taken), and the database does not refuse the find forever
SpecSweepLive ==
  SpecSweep /\ WF_vars(SweepStep) /\ SF_vars(SweepFind /\ UNCHANGED sweep_frame)

\* ---- the catalog cache: fetch_catalog of the customers (GET /catalog) and
\* ---- of the admins (GET /admin/catalog, force_refresh), and the admin's
\* ---- mutations of a category or a product, each followed by
\* ---- invalidate_catalog_cache and _refresh_catalog_cache.  The clock of
\* ---- this part ticks in units of the TTL.
CATALOG_CACHE_TTL == 1
MaxCacheOps == 3
MaxCacheTicks == 1
MaxInFlight == 2
NoTaskDone == \A t \in Tasks : tasks[t].pc # "done"
\* a request is taken when no response is being sent and fewer than
\* MaxInFlight requests are in flight; of two idle coroutines of a process
\* the first takes it
CanTake(t) ==
  /\ tasks[t].pc = "idle"
  /\ t = "a2" => tasks["a1"].pc # "idle"
  /\ NoTaskDone
  /\ started < MaxCacheOps
  /\ Cardinality({w \in Tasks : tasks[w].pc # "idle"}) < MaxInFlight
Other(c) == CHOOSE d \in Collections : d # c

\* a check that never answers from the cache
NeverValid(c, force_refresh, t_now, current_version) == FALSE

\* the condition under which fetch_catalog answers from the cache, outside
\* the lock and again inside
CacheValid(c, force_refresh, t_now, current_version) ==
  /\ ~force_refresh
  /\ CATALOG_CACHE_TTL > 0
  /\ c.payload # NoPayload
  /\ c.expiration > t_now
  /\ c.version = current_version

\* fetch_catalog after _get_catalog_cache_version has returned cv: outside
\* the lock the first check, then the lock is taken or waited for; inside the
\* lock the clock is read and the check is made again
AfterVersion(t, r, cv) ==
  LET p == Proc(t)
      locked == r.ret = "locked"
      r1 == [r EXCEPT !.current_version = cv, !.now = IF locked THEN now ELSE @]
  IN
  IF CacheValid(cache[p], r.force, r1.now, cv)
  THEN /\ tasks' = [tasks EXCEPT ![t] = [r1 EXCEPT !.pc = "done", !.result = "ok",
                                                   !.payload = cache[p].payload]]
       /\ lock' = IF locked THEN [lock EXCEPT ![p] = ""] ELSE lock
  ELSE IF locked
  THEN /\ tasks' = [tasks EXCEPT ![t] = [r1 EXCEPT !.pc = "load"]]
       /\ UNCHANGED lock
  ELSE IF lock[p] = ""
  THEN /\ tasks' = [tasks EXCEPT ![t] = [r1 EXCEPT !.pc = "version", !.ret = "locked"]]
       /\ lock' = [lock EXCEPT ![p] = t]
  ELSE /\ tasks' = [tasks EXCEPT ![t] = [r1 EXCEPT !.pc = "lock_wait"]]
       /\ UNCHANGED lock

\* _get_catalog_cache_version, its find_one
GetVersion(t, r) ==
  IF cache_state = 0
  THEN /\ tasks' = [tasks EXCEPT ![t] = [r EXCEPT !.pc = "upsert"]]
       /\ UNCHANGED <<lock, cache_state, next_uid>>
  ELSE /\ AfterVersion(t, r, cache_state)
       /\ UNCHANGED <<cache_state, next_uid>>

\* GET /catalog (force_refresh false) or GET /admin/catalog (true)
StartFetch(t, force_refresh) ==
  /\ CanTake(t)
  /\ GetVersion(t, [NoTask EXCEPT !.op = "fetch", !.ret = "fast",
                                  !.force = force_refresh, !.now = now,
                                  !.token0 = cache_state, !.bumped0 = bumped])
  /\ started' = started + 1
  /\ UNCHANGED <<rev, cache, bumped, now>>

\* _get_catalog_cache_version of a warm-up, or inside the lock
Version(t) ==
  /\ tasks[t].pc = "version"
  /\ NoTaskDone
  /\ GetVersion(t, tasks[t])
  /\ UNCHANGED <<rev, cache, bumped, now, started>>

\* _get_catalog_cache_version, its update_one with upsert of a new version
VersionUpsert(t) ==
  /\ tasks[t].pc = "upsert"
  /\ NoTaskDone
  /\ cache_state' = FreshVersion(next_uid)
  /\ next_uid' = next_uid + 1
  /\ AfterVersion(t, tasks[t], FreshVersion(next_uid))
  /\ UNCHANGED <<rev, cache, bumped, now, started>>

\* async with _catalog_cache_lock, for a task that had to wait
AcquireLock(t) ==
  /\ tasks[t].pc = "lock_wait"
  /\ NoTaskDone
  /\ lock[Proc(t)] = ""
  /\ lock' = [lock EXCEPT ![Proc(t)] = t]
  /\ tasks' = [tasks EXCEPT ![t] = [@ EXCEPT !.pc = "version", !.ret = "locked"]]
  /\ UNCHANGED <<cache_state, rev, cache, bumped, now, started, next_uid>>

\* _load_catalog_from_db, the first of its two finds to be answered
LoadFirst(t, c) ==
  /\ tasks[t].pc = "load"
  /\ NoTaskDone
  /\ tasks' = [tasks EXCEPT ![t] = [@ EXCEPT !.pc = "load_second", !.first = c,
                                            !.data = [NoPayload EXCEPT ![c] = rev[c]]]]
  /\ UNCHANGED <<cache_state, rev, cache, lock, bumped, now, started, next_uid>>

\* _load_catalog_from_db, its other find, and the rest of fetch_catalog: the
\* globals are set, the lock is released, the payload is returned; a load
\* that raises leaves the globals and releases the lock
LoadSecond(t, outcome) ==
  LET r == tasks[t]
      p == Proc(t)
      c == Other(r.first)
      data == [r.data EXCEPT ![c] = rev[c]]
      waits(w) == /\ w # t /\ Proc(w) = p /\ tasks[w].pc = "lock_wait"
                  /\ tasks[w].op = "fetch" /\ ~tasks[w].force
                  /\ r.op = "fetch" /\ ~r.force /\ r.token0 = tasks[w].token0
  IN
  /\ r.pc = "load_second"
  /\ NoTaskDone
  /\ lock' = [lock EXCEPT ![p] = ""]
  /\ IF outcome = "raises"
     THEN /\ tasks' = [tasks EXCEPT ![t] = [r EXCEPT !.pc = "done", !.result = "error"]]
          /\ UNCHANGED cache
     ELSE /\ cache' = [cache EXCEPT ![p] =
                         [payload |-> data, expiration |-> r.now + CATALOG_CACHE_TTL,
                          version |-> r.current_version, read |-> r.current_version]]
          /\ tasks' = [w \in Tasks |->
                         IF w = t
                         THEN [r EXCEPT !.pc = "done", !.result = "ok", !.data = data,
                                        !.payload = data, !.loaded = TRUE]
                         ELSE IF waits(w)
                         THEN [tasks[w] EXCEPT
                                 !.seen = data,
                                 !.disturbed = r.now + CATALOG_CACHE_TTL <= now]
                         ELSE tasks[w]]
  /\ UNCHANGED <<cache_state, rev, bumped, now, started, next_uid>>

\* a mutation of the admin (create, update or delete of a category or of a
\* product): its write, then invalidate_catalog_cache up to its database call
StartMutation(t, c) ==
  /\ CanTake(t)
  /\ rev' = [rev EXCEPT ![c] = @ + 1]
  /\ cache' = [cache EXCEPT ![Proc(t)] = NoCache]
  /\ tasks' = [w \in Tasks |->
                 IF w = t
                 THEN [NoTask EXCEPT !.op = "mutate", !.pc = "bump", !.coll = c,
                                     !.wrote = rev[c] + 1]
                 ELSE IF Proc(w) = Proc(t) /\ tasks[w].seen # NoPayload
                 THEN [tasks[w] EXCEPT !.disturbed = TRUE]
                 ELSE tasks[w]]
  /\ started' = started + 1
  /\ UNCHANGED <<cache_state, lock, bumped, now, next_uid>>

\* _bump_catalog_cache_version and the end of invalidate_catalog_cache; then
\* _refresh_catalog_cache calls fetch_catalog with force_refresh
BumpVersion(t) ==
  LET r == tasks[t] IN
  /\ r.pc = "bump"
  /\ NoTaskDone
  /\ cache_state' = FreshVersion(next_uid)
  /\ next_uid' = next_uid + 1
  /\ cache' = [cache EXCEPT ![Proc(t)].version = FreshVersion(next_uid)]
  /\ bumped' = [bumped EXCEPT ![r.coll] = IF r.wrote > @ THEN r.wrote ELSE @]
  /\ tasks' = [tasks EXCEPT ![t] = [r EXCEPT !.pc = "version", !.ret = "fast",
                                             !.force = TRUE, !.now = now]]
  /\ UNCHANGED <<rev, lock, now, started>>

\* the response has been sent
ReturnTask(t) ==
  /\ tasks[t].pc = "done"
  /\ tasks' = [tasks EXCEPT ![t] = NoTask]
  /\ UNCHANGED <<cache_state, rev, cache, lock, bumped, now, started, next_uid>>

\* the TTL goes by
CacheTick ==
  /\ NoTaskDone
  /\ now < MaxCacheTicks
  /\ now' = now + 1
  /\ tasks' = [w \in Tasks |->
                 IF tasks[w].seen # NoPayload THEN [tasks[w] EXCEPT !.disturbed = TRUE]
                 ELSE tasks[w]]
  /\ UNCHANGED <<cache_state, rev, cache, lock, bumped, started, next_uid>>

cache_frame == <<variants, price, carts, orders, slots, races, trip, cart_docs,
                 ledger, catalog, sweep, broadcasting>>

NextCache ==
  \/ \E t \in Tasks, f \in BOOLEAN : StartFetch(t, f) /\ UNCHANGED cache_frame
  \/ \E t \in Tasks : Version(t) /\ UNCHANGED cache_frame
  \/ \E t \in Tasks : VersionUpsert(t) /\ UNCHANGED cache_frame
  \/ \E t \in Tasks : AcquireLock(t) /\ UNCHANGED cache_frame
  \/ \E t \in Tasks, c \in Collections : LoadFirst(t, c) /\ UNCHANGED cache_frame
  \/ \E t \in Tasks, outcome \in Outcomes : LoadSecond(t, outcome) /\ UNCHANGED cache_frame
  \/ \E t \in Tasks, c \in Collections : StartMutation(t, c) /\ UNCHANGED cache_frame
  \/ \E t \in Tasks : BumpVersion(t) /\ UNCHANGED cache_frame
  \/ \E t \in Tasks : ReturnTask(t) /\ UNCHANGED cache_frame
  \/ CacheTick /\ UNCHANGED cache_frame

\* the processes have just started, on a database that holds a version
\* token or none yet
InitCache ==
  /\ variants = [v \in Variants |-> InitStock]
  /\ price = InitPrice
  /\ carts = [u \in Users |-> NoCart]
  /\ orders = <<>>
  /\ slots = [s \in Slots |-> IdleSlot]
  /\ now = 0
  /\ next_uid = 1
  /\ started = 0
  /\ races = 0
  /\ trip = NoTrip
  /\ cart_docs = [u \in Users |-> 0]
  /\ ledger = NoLedger
  /\ products = ProductsStored
  /\ name = InitName
  /\ sweep = IdleSweep
  /\ cache_state \in {0, StoredVersion}
  /\ rev = [c \in Collections |-> 1]
  /\ cache = [p \in Procs |-> NoCache]
  /\ lock = [p \in Procs |-> ""]
  /\ tasks = [t \in Tasks |-> NoTask]
  /\ bumped = [c \in Collections |-> 1]
  /\ StoreInit

SpecCache == InitCache /\ [][NextCache]_vars

\* ---- the store status and its broadcaster (routers/store.py). A call of
\* ---- the database runs on the server while the coroutine is suspended, and
\* ---- the coroutine resumes later, when the event loop gets to the answer;
\* ---- the Python that follows touches the listeners and the queues, which
\* ---- every request of the process shares, so here an action is the Python
\* ---- from one resumption up to the next call of the database, with that
\* ---- call carried out on the server, and the answer is waiting in the
\* ---- locals (doc) until the next action of the request.
QUEUE_MAXSIZE == 0
QueueBound == 2
MaxStoreOps == 3
MaxStoreTicks == 1
MaxStoreInFlight == 2

\* StoreStatusBroadcaster.broadcast on the state st of the broadcaster:
\* put_nowait raises QueueFull on a queue whose maxsize is positive and
\* reached, and such a queue is unregistered; asyncio.Queue() has maxsize 0
broadcast(st, payload) ==
  LET full(q) == QUEUE_MAXSIZE > 0 /\ Len(st.queues[q]) >= QUEUE_MAXSIZE
      stale_listeners == {q \in st.listeners : full(q)}
  IN [listeners |-> st.listeners \ stale_listeners,
      queues |-> [q \in StoreReqs |->
                    IF q \in st.listeners /\ ~full(q)
                    THEN Append(st.queues[q], payload) ELSE st.queues[q]]]

\* the payload of an event
_serialize_store_status(model) ==
  [is_sleep_mode |-> model.is_sleep_mode, sleep_until |-> model.sleep_until,
   updated_at |-> model.updated_at]

\* update_one({"_id": id}, {"$set": ...}) on store_status
StatusSet(id, sleep, until) ==
  [i \in DOMAIN store_status |->
     IF store_status[i].id = id
     THEN [id |-> id, is_sleep_mode |-> sleep, sleep_until |-> until,
           updated_at |-> writes + 1]
     ELSE store_status[i]]

\* _ensure_awake_if_needed: the sleep has a time to end and it has passed
MustWake(doc) ==
  doc.is_sleep_mode /\ doc.sleep_until # NoDate /\ doc.sleep_until <= now

\* _ensure_awake_if_needed sends its update_one and sets the fields of doc
Wake(r, got) ==
  /\ store_status' = StatusSet(reqs[r].doc.id, FALSE, NoDate)
  /\ writes' = writes + 1
  /\ reqs' = [reqs EXCEPT ![r].pc = "wake", ![r].got = got,
                          ![r].doc = [id |-> reqs[r].doc.id, is_sleep_mode |-> FALSE,
                                      sleep_until |-> NoDate, updated_at |-> writes + 1]]
  /\ UNCHANGED <<listeners, queues, received>>

\* a request begins, in the first free slot: the stream registers its queue,
\* and every handler calls get_or_create_store_status, whose find_one({})
\* reads the first document
StartStore(r, op, sleep, until) ==
  /\ reqs[r].pc = "idle"
  /\ \A q \in StoreReqs : q < r => reqs[q].pc # "idle"
  /\ started < MaxStoreOps
  /\ Cardinality({q \in StoreReqs : reqs[q].pc \notin {"idle", "streaming"}})
       < MaxStoreInFlight
  /\ started' = started + 1
  /\ op # "toggle" => ~sleep
  /\ ~sleep => until = NoDate
  /\ reqs' = [reqs EXCEPT ![r] =
                [NoReq EXCEPT !.op = op, !.pc = "find", !.sleep = sleep, !.until = until,
                              !.doc = IF store_status = <<>> THEN NoStatus
                                      ELSE store_status[1]]]
  /\ listeners' = IF op = "stream" THEN listeners \cup {r} ELSE listeners
  /\ queues' = IF op = "stream" THEN [queues EXCEPT ![r] = <<>>] ELSE queues
  /\ received' = IF op = "stream" THEN [received EXCEPT ![r] = <<>>] ELSE received
  /\ UNCHANGED <<store_status, writes, now>>

\* get_or_create_store_status has returned doc to the handler, the
\* broadcaster being in state st: GET /store/status answers, the stream puts
\* the snapshot into its queue and starts its generator, the toggle sends its
\* update_one
AfterGet(r, doc, st) ==
  CASE reqs[r].op = "status" ->
         /\ reqs' = [reqs EXCEPT ![r] = NoReq]
         /\ listeners' = st.listeners /\ queues' = st.queues
         /\ UNCHANGED <<store_status, writes, received>>
    [] reqs[r].op = "stream" ->
         /\ reqs' = [reqs EXCEPT ![r].pc = "streaming", ![r].doc = doc, ![r].got = TRUE]
         /\ listeners' = st.listeners
         /\ queues' = [st.queues EXCEPT ![r] = Append(@, _serialize_store_status(doc))]
         /\ UNCHANGED <<store_status, writes, received>>
    [] reqs[r].op = "toggle" ->
         /\ store_status' = StatusSet(doc.id, reqs[r].sleep,
                                      IF reqs[r].sleep THEN reqs[r].until ELSE NoDate)
         /\ writes' = writes + 1
         /\ reqs' = [reqs EXCEPT ![r].pc = "update", ![r].doc = doc, ![r].got = TRUE]
         /\ listeners' = st.listeners /\ queues' = st.queues
         /\ UNCHANGED received

\* get_or_create_store_status resumes with the answer of find_one: without a
\* document it sends insert_one, with one it goes through
\* _ensure_awake_if_needed
Found(r) ==
  /\ reqs[r].pc = "find"
  /\ IF reqs[r].doc = NoStatus
       THEN /\ store_status' = Append(store_status,
                                      [id |-> Len(store_status) + 1, is_sleep_mode |-> FALSE,
                                       sleep_until |-> NoDate, updated_at |-> writes + 1])
            /\ writes' = writes + 1
            /\ reqs' = [reqs EXCEPT ![r].pc = "insert",
                                    ![r].doc = [id |-> Len(store_status) + 1,
                                                is_sleep_mode |-> FALSE,
                                                sleep_until |-> NoDate,
                                                updated_at |-> writes + 1]]
            /\ UNCHANGED <<listeners, queues, received>>
       ELSE IF MustWake(reqs[r].doc)
              THEN Wake(r, FALSE)
              ELSE AfterGet(r, reqs[r].doc, [listeners |-> listeners, queues |-> queues])
  /\ UNCHANGED <<started, now>>

\* get_or_create_store_status resumes after insert_one and returns status_doc
Inserted(r) ==
  /\ reqs[r].pc = "insert"
  /\ AfterGet(r, reqs[r].doc, [listeners |-> listeners, queues |-> queues])
  /\ UNCHANGED <<started, now>>

\* _ensure_awake_if_needed resumes after its update_one and broadcasts doc;
\* inside get_or_create_store_status the handler goes on, at the end of the
\* toggle the handler broadcasts the same status and answers
Woken(r) ==
  /\ reqs[r].pc = "wake"
  /\ LET st == broadcast([listeners |-> listeners, queues |-> queues],
                         _serialize_store_status(reqs[r].doc))
     IN IF reqs[r].got
          THEN LET st2 == broadcast(st, _serialize_store_status(reqs[r].doc))
               IN /\ listeners' = st2.listeners /\ queues' = st2.queues
                  /\ reqs' = [reqs EXCEPT ![r] = NoReq]
                  /\ UNCHANGED <<store_status, writes, received>>
          ELSE AfterGet(r, reqs[r].doc, st)
  /\ UNCHANGED <<started, now>>

\* toggle_store_sleep resumes after update_one and reads the document again
Updated(r) ==
  /\ reqs[r].pc = "update"
  /\ reqs' = [reqs EXCEPT ![r].pc = "reread",
                          ![r].doc = CHOOSE d \in {store_status[i] : i \in DOMAIN store_status} :
                                       d.id = reqs[r].doc.id]
  /\ UNCHANGED <<store_status, listeners, queues, received, writes, started, now>>

\* toggle_store_sleep resumes with the document read: _ensure_awake_if_needed,
\* then the broadcast and the answer
Reread(r) ==
  /\ reqs[r].pc = "reread"
  /\ IF MustWake(reqs[r].doc)
       THEN Wake(r, TRUE)
       ELSE LET st == broadcast([listeners |-> listeners, queues |-> queues],
                                _serialize_store_status(reqs[r].doc))
            IN /\ listeners' = st.listeners /\ queues' = st.queues
               /\ reqs' = [reqs EXCEPT ![r] = NoReq]
               /\ UNCHANGED <<store_status, writes, received>>
  /\ UNCHANGED <<started, now>>

\* event_generator: queue.get() returns an event and the stream yields it
StreamGet(r) ==
  /\ reqs[r].pc = "streaming"
  /\ queues[r] # <<>>
  /\ received' = [received EXCEPT ![r] = Append(@, Head(queues[r]).updated_at)]
  /\ queues' = [queues EXCEPT ![r] = Tail(@)]
  /\ UNCHANGED <<store_status, listeners, reqs, writes, started, now>>

\* the client goes away: the generator is cancelled and unregisters its queue
Disconnect(r) ==
  /\ reqs[r].pc = "streaming"
  /\ listeners' = listeners \ {r}
  /\ queues' = [queues EXCEPT ![r] = <<>>]
  /\ received' = [received EXCEPT ![r] = <<>>]
  /\ reqs' = [reqs EXCEPT ![r] = NoReq]
  /\ UNCHANGED <<store_status, writes, started, now>>

\* time passes
StoreTick ==
  /\ now < MaxStoreTicks
  /\ now' = now + 1
  /\ UNCHANGED <<broadcasting, started>>

store_frame == <<variants, price, carts, orders, slots, next_uid, races, trip,
                 cart_docs, ledger, catalog, sweep, caching>>

NextStore ==
  \/ \E r \in StoreReqs, op \in {"status", "toggle", "stream"}, sleep \in BOOLEAN, until \in {NoDate, 1} :
       StartStore(r, op, sleep, until) /\ UNCHANGED store_frame
  \/ \E r \in StoreReqs : Found(r) /\ UNCHANGED store_frame
  \/ \E r \in StoreReqs : Inserted(r) /\ UNCHANGED store_frame
  \/ \E r \in StoreReqs : Woken(r) /\ UNCHANGED store_frame
  \/ \E r \in StoreReqs : Updated(r) /\ UNCHANGED store_frame
  \/ \E r \in StoreReqs : Reread(r) /\ UNCHANGED store_frame
  \/ \E r \in StoreReqs : StreamGet(r) /\ UNCHANGED store_frame
  \/ \E r \in StoreReqs : Disconnect(r) /\ UNCHANGED store_frame
  \/ StoreTick /\ UNCHANGED store_frame

\* the process has just started, on a database whose store_status collection
\* is empty or holds the one document of an earlier run, awake or asleep
InitStore ==
  /\ variants = [v \in Variants |-> InitStock]
  /\ price = InitPrice
  /\ carts = [u \in Users |-> NoCart]
  /\ orders = <<>>
  /\ slots = [s \in Slots |-> IdleSlot]
  /\ now = 0
  /\ next_uid = 1
  /\ started = 0
  /\ races = 0
  /\ trip = NoTrip
  /\ cart_docs = [u \in Users |-> 0]
  /\ ledger = NoLedger
  /\ products = ProductsStored
  /\ name = InitName
  /\ sweep = IdleSweep
  /\ CachingInit
  /\ \E sleep \in BOOLEAN :
       store_status \in {<<>>, <<[id |-> 1, is_sleep_mode |-> sleep,
                                  sleep_until |-> IF sleep THEN 1 ELSE NoDate,
                                  updated_at |-> 1]>>}
  /\ writes = Len(store_status)
  /\ listeners = {}
  /\ queues = [r \in StoreReqs |-> <<>>]
  /\ reqs = [r \in StoreReqs |-> NoReq]
  /\ received = [r \in StoreReqs |-> <<>>]

SpecStore == InitStore /\ [][NextStore]_vars

\* ---- the ledger on its own: calls of decrement_variant_quantity and
\* ---- restore_variant_quantity, each one update_one, in any order, on any
\* ---- stock, with ids of products and variants that exist or not
MaxLedgerOps == 3
LedgerProductIds == {"p1", "p9", "bad"}
LedgerVariantIds == Variants \cup {"v9"}
LedgerQuantities == -1..(InitStock + 1)

InitLedger ==
  /\ variants \in [Variants -> 0..InitStock]
  /\ price = InitPrice
  /\ carts = [u \in Users |-> NoCart]
  /\ orders = <<>>
  /\ slots = [s \in Slots |-> IdleSlot]
  /\ now = 0
  /\ next_uid = 1
  /\ started = 0
  /\ races = 0
  /\ trip = NoTrip
  /\ cart_docs = [u \in Users |-> 0]
  /\ ledger = [NoLedger EXCEPT !.stock0 = variants]
  /\ products = ProductsStored
  /\ name = InitName
  /\ sweep = IdleSweep
  /\ CachingInit
  /\ StoreInit

DecrementCall(product_id, v, q) ==
  LET res == decrement_variant_quantity(variants, product_id, v, q) IN
  /\ started < MaxLedgerOps
  /\ variants' = res.variants
  /\ ledger' = [ledger EXCEPT
                  !.out = IF res.ret /\ q > 0 /\ v \in Variants
                          THEN [@ EXCEPT ![v] = @ + q] ELSE @,
                  !.call = [op |-> "decrement", product_id |-> product_id,
                            variant_id |-> v, quantity |-> q,
                            before |-> variants, ret |-> res.ret]]
  /\ started' = started + 1
  /\ UNCHANGED <<price, carts, orders, slots, now, next_uid, races, trip, cart_docs,
                 catalog, services>>

RestoreCall(product_id, v, q) ==
  LET after == RestoreVariantQuantity(variants, product_id, v, q) IN
  /\ started < MaxLedgerOps
  /\ variants' = after
  /\ ledger' = [ledger EXCEPT
                  !.back = [x \in Variants |-> @[x] + after[x] - variants[x]],
                  !.call = [op |-> "restore", product_id |-> product_id,
                            variant_id |-> v, quantity |-> q,
                            before |-> variants, ret |-> TRUE]]
  /\ started' = started + 1
  /\ UNCHANGED <<price, carts, orders, slots, now, next_uid, races, trip, cart_docs,
                 catalog, services>>

NextLedger ==
  \/ \E product_id \in LedgerProductIds, v \in LedgerVariantIds, q \in LedgerQuantities :
       DecrementCall(product_id, v, q)
  \/ \E product_id \in LedgerProductIds, v \in LedgerVariantIds, q \in LedgerQuantities :
       RestoreCall(product_id, v, q)

SpecLedger == InitLedger /\ [][NextLedger]_vars

\* ------------------------------------------------------------ properties
RECURSIVE CartsHeld(_, _)
CartsHeld(us, v) ==
  IF us = {} THEN 0
  ELSE LET u == CHOOSE x \in us : TRUE
       IN Held(carts[u].items, v) + CartsHeld(us \ {u}, v)

RECURSIVE OrdersHeld(_, _)
OrdersHeld(os, v) ==
  IF os = {} THEN 0
  ELSE LET o == CHOOSE x \in os : TRUE
       IN (IF orders[o].status # "canceled" THEN Held(orders[o].items, v) ELSE 0)
          + OrdersHeld(os \ {o}, v)

Smaller(a, b) == IF a < b THEN a ELSE b
Larger(a, b) == IF a < b THEN b ELSE a

Done(s, op) == slots[s].pc = "done" /\ slots[s].op = op

\* C1: with no request in flight, for every variant the quantity in stock plus
\* the quantities held by the items of the carts plus the quantities held by
\* the items of the non-canceled orders is the quantity the variant started with
C1_Conservation ==
  AllIdle =>
    \A v \in Variants :
      variants[v] + CartsHeld(Users, v) + OrdersHeld(DOMAIN orders, v) = InitStock

\* C2: two add_item calls of different customers for the same variant that are
\* in flight together and have both passed the decrement (neither reclaimed an
\* expired cart) took together no more than the stock before the calls
C2_NoOversell ==
  \A s1, s2 \in Slots :
    ( /\ s1 # s2
      /\ slots[s1].op = "add" /\ slots[s2].op = "add"
      /\ slots[s1].pc = "save" /\ slots[s2].pc = "save"
      /\ slots[s1].variant = slots[s2].variant
      /\ slots[s1].user # slots[s2].user
      /\ ~slots[s1].expired /\ ~slots[s2].expired )
    => slots[s1].qty + slots[s2].qty
         <= Larger(slots[s1].stock0[slots[s1].variant],
                   slots[s2].stock0[slots[s1].variant])

\* C3: the quantity of a variant is never negative
C3_NonNegative == \A v \in Variants : variants[v] >= 0

\* C3 witness: an add_item that passed its own stock check lost the race for
\* the stock and was refused by the check of the decrement
C3_Witness ==
  \E s \in Slots :
    /\ Done(s, "add")
    /\ slots[s].result = "insufficient"
    /\ slots[s].amt > 0
    /\ variants[slots[s].variant] < slots[s].qty

\* C4 as claimed: add_item of exactly the stock succeeds and leaves the stock
\* at 0; add_item of the stock plus one is refused for insufficient stock and
\* leaves the stock and the stored cart as they were
C4_Boundary ==
  \A s \in Slots :
    (Done(s, "add") /\ AddError(slots[s].product_id, slots[s].variant) = "") =>
      LET r == slots[s] IN
      /\ r.qty = r.stock0[r.variant] =>
           r.result = "ok" /\ variants[r.variant] = 0
      /\ r.qty = r.stock0[r.variant] + 1 =>
           /\ r.result = "insufficient"
           /\ variants = r.stock0
           /\ carts[r.user] = r.cart0

\* C4 as amended: add_item of exactly the stock succeeds and leaves in stock
\* what it reclaimed for that variant from the customer's expired cart, which
\* is 0 when the cart was not expired; add_item of the stock plus one is
\* refused and leaves the stock and the stored cart as they were
C4_BoundaryAmended ==
  \A s \in Slots :
    (Done(s, "add") /\ AddError(slots[s].product_id, slots[s].variant) = "") =>
      LET r == slots[s]
          reclaimed == IF r.cart0.id # 0 /\ r.cart0.items # <<>>
                          /\ now > r.cart0.updated_at + CART_EXPIRY_MINUTES
                       THEN Held(r.cart0.items, r.variant) ELSE 0
      IN
      /\ r.qty = r.stock0[r.variant] =>
           r.result = "ok" /\ variants[r.variant] = reclaimed
      /\ r.qty = r.stock0[r.variant] + 1 =>
           /\ r.result = "insufficient"
           /\ variants = r.stock0
           /\ carts[r.user] = r.cart0

\* C4 witness: an add_item of exactly the stock, into a cart that already
\* holds an item of the variant, has succeeded and the stock is 0
C4_Witness ==
  \E s \in Slots :
    /\ Done(s, "add")
    /\ slots[s].result = "ok"
    /\ slots[s].qty = slots[s].stock0[slots[s].variant]
    /\ Held(slots[s].cart0.items, slots[s].variant) > 0
    /\ variants[slots[s].variant] = 0

\* the remove_item that ends the round trip under observation
TripEnds(s) ==
  /\ Done(s, "remove")
  /\ slots[s].result = "ok"
  /\ trip.on
  /\ trip.user = slots[s].user
  /\ trip.variant = slots[s].variant

\* C5 as claimed: add_item, possibly several merged into one item, then
\* remove_item of that item, with no other request in between, brings the
\* variant back to its quantity before the first add
C5_RoundTrip ==
  \A s \in Slots : TripEnds(s) => variants[trip.variant] = trip.stock

\* C5 as amended: ... brings the variant back to its quantity before the first
\* add plus what that add reclaimed for the variant from the customer's
\* expired cart (nothing when the cart was not expired)
C5_RoundTripAmended ==
  \A s \in Slots :
    TripEnds(s) => variants[trip.variant] = trip.stock + trip.reclaimed

\* C5 witness: the removed item had been built by two merged adds
C5_Witness ==
  \E s \in Slots :
    /\ TripEnds(s)
    /\ slots[s].amt = 2
    /\ Len(slots[s].cart0.items) = 1
    /\ trip.stock = variants[trip.variant]
    /\ started = 3

\* C6: a read of a non-empty cart idle for more than 10 minutes returns a cart
\* without items and has credited every variant with what the items held; a
\* read of a cart idle for 10 minutes or less returns it as it was and
\* credits nothing
C6_Expiry ==
  \A s \in Slots :
    (Done(s, "get") /\ slots[s].cart0.id # 0 /\ slots[s].cart0.items # <<>>) =>
      LET r == slots[s] IN
      IF now - r.cart0.updated_at > CART_EXPIRY_MINUTES
      THEN /\ r.result = "ok"
           /\ r.cart.items = <<>>
           /\ \A v \in Variants :
                variants[v] = r.stock0[v] + Held(r.cart0.items, v)
      ELSE /\ r.result = "ok"
           /\ r.cart = r.cart0
           /\ carts[r.user] = r.cart0
           /\ variants = r.stock0

\* C6 witness: a read has found a cart with two items idle for 11 minutes
C6_Witness ==
  \E s \in Slots :
    /\ Done(s, "get")
    /\ Len(slots[s].cart0.items) = 2
    /\ now - slots[s].cart0.updated_at = CART_EXPIRY_MINUTES + 1
    /\ slots[s].cart.items = <<>>

CancelOps == {"admin_status", "bot_status", "bot_cancel"}

C8_RestoredAtMostOnce ==
  \A o \in DOMAIN orders : orders[o].restores <= 1

\* two cancellations of one order, read as not canceled by both, that are in
\* flight together and are both through with their restores
CancelRace(s1, s2) ==
  /\ s1 # s2
  /\ slots[s1].op \in CancelOps /\ slots[s2].op \in CancelOps
  /\ slots[s1].new_status = "canceled" /\ slots[s2].new_status = "canceled"
  /\ slots[s1].order_id = slots[s2].order_id
  /\ slots[s1].doc.status # "canceled" /\ slots[s2].doc.status # "canceled"
  /\ slots[s1].pc = "status_write" /\ slots[s2].pc = "status_write"

\* C9: two concurrent cancellations of a non-canceled order credit every
\* variant with the order's items once: the stock is the stock before the two
\* requests plus what the items hold
C9_CancelOnce ==
  \A s1, s2 \in Slots :
    CancelRace(s1, s2) =>
      \A v \in Variants :
        variants[v] = Smaller(slots[s1].stock0[v], slots[s2].stock0[v])
                      + Held(slots[s1].doc.items, v)

\* two requests of one customer that found the same expired cart and are both
\* through with the restores of its items
ExpiryRace(s1, s2) ==
  /\ s1 # s2
  /\ slots[s1].user = slots[s2].user
  /\ slots[s1].pc = "cleanup_delete" /\ slots[s2].pc = "cleanup_delete"
  /\ slots[s1].cart.id = slots[s2].cart.id

\* two removals of the same item of one customer that are both through with
\* the restore of the item
RemoveRace(s1, s2) ==
  /\ s1 # s2
  /\ slots[s1].op = "remove" /\ slots[s2].op = "remove"
  /\ slots[s1].user = slots[s2].user
  /\ slots[s1].item_id = slots[s2].item_id
  /\ slots[s1].pc = "save" /\ slots[s2].pc = "save"

\* C10: two concurrent requests of a customer on the same expired cart, or two
\* concurrent removals of the same item, credit the stock held by each item once
C10_ReleaseOnce ==
  \A s1, s2 \in Slots :
    /\ ExpiryRace(s1, s2) =>
         \A v \in Variants :
           variants[v] = Smaller(slots[s1].stock0[v], slots[s2].stock0[v])
                         + Held(slots[s1].cart.items, v)
    /\ RemoveRace(s1, s2) =>
         LET v == slots[s1].variant IN
         variants[v] = Smaller(slots[s1].stock0[v], slots[s2].stock0[v])
                       + slots[s1].amt

\* the cart that a request found stored was expired
FoundExpired(r) ==
  /\ r.cart0.id # 0
  /\ r.cart0.items # <<>>
  /\ now - r.cart0.updated_at > CART_EXPIRY_MINUTES

C12_Terminal ==
  [][\A o \in DOMAIN orders :
       orders[o].status \in {"done", "canceled"} =>
         orders'[o].status = orders[o].status]_vars

\* C13: no cart item is held by two orders, so a cart is converted into at
\* most one order also when create_order runs twice concurrently
C13_OneOrderPerCart ==
  \A o1, o2 \in DOMAIN orders :
    o1 # o2 =>
      \A i \in 1..Len(orders[o1].items), j \in 1..Len(orders[o2].items) :
        orders[o1].items[i].id # orders[o2].items[j].id

\* C14: the carts collection never holds more than one document of a user
C14_OneCartPerUser == \A u \in Users : cart_docs[u] <= 1

\* C14 witness: of two concurrent first accesses of a customer the second
\* insert_one was refused by the unique index, and one document exists
C14_Witness ==
  \E s \in Slots :
    /\ slots[s].pc = "done"
    /\ slots[s].result = "duplicate_key"
    /\ cart_docs[slots[s].user] = 1

\* C15: can_edit_address of an order is true exactly when its status is new
\* or processing
C15_CanEditAddress ==
  \A o \in DOMAIN orders :
    orders[o].can_edit_address <=> orders[o].status \in {"new", "processing"}

\* C16: a call of decrement_variant_quantity with q > 0 takes exactly q and
\* returns true when the variant exists with at least q, otherwise it returns
\* false and changes nothing; with q <= 0 it returns true and changes
\* nothing; over any sequence of calls no quantity is negative and every
\* quantity is the initial one minus what was taken plus what was restored
C16_Decrement ==
  /\ \A v \in Variants : variants[v] >= 0
  /\ \A v \in Variants :
       variants[v] = ledger.stock0[v] - ledger.out[v] + ledger.back[v]
  /\ ledger.call.op = "decrement" =>
       LET c == ledger.call IN
       IF c.quantity <= 0 THEN c.ret /\ variants = c.before
       ELSE IF /\ c.product_id = TheProduct
               /\ c.variant_id \in Variants
               /\ c.before[c.variant_id] >= c.quantity
       THEN /\ c.ret
            /\ variants = [c.before EXCEPT ![c.variant_id] = @ - c.quantity]
       ELSE ~c.ret /\ variants = c.before

\* C16 witness: after a decrement that took the whole stock of a variant, a
\* decrement of one more unit has been refused
C16_Witness ==
  /\ ledger.call.op = "decrement"
  /\ ledger.call.product_id = TheProduct
  /\ ledger.call.variant_id \in Variants
  /\ ledger.call.quantity = 1
  /\ ~ledger.call.ret
  /\ ledger.out[ledger.call.variant_id] = InitStock

\* C17: a call of restore_variant_quantity with q > 0 adds exactly q to the
\* variant when the product and the variant exist, whatever the quantity
\* was; with a malformed product id, an unknown product or an unknown variant,
\* or with q <= 0, it completes and changes nothing
C17_Restore ==
  ledger.call.op = "restore" =>
    LET c == ledger.call IN
    IF c.quantity > 0 /\ c.product_id = TheProduct /\ c.variant_id \in Variants
    THEN variants = [c.before EXCEPT ![c.variant_id] = @ + c.quantity]
    ELSE variants = c.before

\* C17 witness: a restore of a positive quantity under a malformed product
\* id has completed, after a restore that was applied
C17_Witness ==
  /\ ledger.call.op = "restore"
  /\ ledger.call.product_id = "bad"
  /\ ledger.call.variant_id \in Variants
  /\ ledger.call.quantity > 0
  /\ ledger.back[ledger.call.variant_id] > 0

\* C18: an add_item that fails the checks on its product and variant ids,
\* and an update_item_quantity or remove_item of an item id that is not in
\* the customer's unexpired cart, return an error and leave every variant
\* quantity and the items of the customer's cart as they were
C18_RejectedNoEffect ==
  \A s \in Slots :
    LET r == slots[s] IN
    /\ (Done(s, "add") /\ AddError(r.product_id, r.variant) # "") =>
         /\ r.result \in {"bad_product_id", "product_not_found", "no_variants",
                           "variant_required", "variant_not_found"}
         /\ variants = r.stock0
         /\ carts[r.user] = r.cart0
    /\ ( /\ r.pc = "done"
         /\ r.op \in {"update", "remove"}
         /\ ~FoundExpired(r)
         /\ \A i \in 1..Len(r.cart0.items) : r.cart0.items[i].id # r.item_id ) =>
         /\ r.result = "not_found"
         /\ variants = r.stock0
         /\ carts[r.user].items = r.cart0.items

\* C18 witness: a remove_item of an id that is not in the customer's cart,
\* which holds an item and is not expired, has been refused
C18_Witness ==
  \E s \in Slots :
    /\ Done(s, "remove")
    /\ slots[s].result = "not_found"
    /\ slots[s].cart0.items # <<>>
    /\ ~FoundExpired(slots[s])

\* C19: when get, add_item, update_item_quantity or remove_item has answered
\* a customer whose cart was expired, the expired cart document is gone,
\* whether the request succeeded or not, and an add_item of a quantity that
\* the stock covers once the cart is reclaimed is not refused for
\* insufficient stock
C19_ExpiryEveryEntry ==
  \A s \in Slots :
    LET r == slots[s] IN
    ( /\ r.pc = "done"
      /\ r.op \in {"get", "add", "update", "remove"}
      /\ FoundExpired(r) ) =>
      /\ carts[r.user].id # r.cart0.id
      /\ (r.op = "add" /\ AddError(r.product_id, r.variant) = ""
            /\ r.qty <= r.stock0[r.variant] + Held(r.cart0.items, r.variant)) =>
           r.result = "ok"

\* C20: a create_order that found the customer's cart expired creates no
\* order
C20_NoExpiredCheckout ==
  \A s \in Slots :
    (Done(s, "order") /\ FoundExpired(slots[s])) =>
      /\ slots[s].result # "ok"
      /\ DOMAIN orders = slots[s].orders0

\* the quantity of the item of an update_item_quantity in the cart that was
\* stored when the request arrived (0: no such item)
OldQuantity(r) ==
  LET i == ItemIndex(r.cart0.items, r.item_id)
  IN IF i = 0 THEN 0 ELSE r.cart0.items[i].quantity

\* an update_item_quantity that found its item has answered
UpdateAnswered(s) ==
  /\ Done(s, "update")
  /\ slots[s].result # "not_found"
  /\ OldQuantity(slots[s]) > 0

\* the first three cases of C21, which are about a product that is stored:
\* a raise that the stock covers takes the difference, a raise that it does
\* not cover is refused and changes nothing, a lowering gives the difference
\* back; and a request that succeeds leaves the item with the new quantity
C21_StoredProduct ==
  \A s \in Slots :
    (UpdateAnswered(s) /\ ProductFound(TheProduct)) =>
      LET r == slots[s]
          old == OldQuantity(r)
          v == r.variant
          i == ItemIndex(carts[r.user].items, r.item_id)
      IN
      /\ (r.qty > old /\ r.stock0[v] >= r.qty - old) =>
           r.result = "ok" /\ variants[v] = r.stock0[v] - (r.qty - old)
      /\ (r.qty > old /\ r.stock0[v] < r.qty - old) =>
           /\ r.result = "insufficient"
           /\ carts[r.user] = r.cart0
           /\ variants = r.stock0
      /\ r.qty < old => variants[v] = r.stock0[v] + (old - r.qty)
      /\ r.result = "ok" => i # 0 /\ carts[r.user].items[i].quantity = r.qty

\* C21: update_item_quantity from old to new takes new - old from the stock
\* when the stock covers it, is refused and changes nothing when it does not,
\* gives old - new back when new < old; a request that succeeds leaves the
\* item with the quantity new; and the quantity of an item increases only
\* when the stock was decremented by the difference, also when the product
\* no longer exists
C21_UpdateQuantity ==
  /\ C21_StoredProduct
  /\ \A s \in Slots :
       (UpdateAnswered(s) /\ slots[s].result = "ok"
          /\ slots[s].qty > OldQuantity(slots[s])) =>
         variants[slots[s].variant]
           = slots[s].stock0[slots[s].variant]
               - (slots[s].qty - OldQuantity(slots[s]))

\* C22: after a successful add_item, update_item_quantity or remove_item the
\* stored cart's total_amount is the sum over its items of price x quantity
\* and its updated_at is the time of the request; a get leaves the updated_at
\* of the cart document it found as it was
C22_TotalAndTouch ==
  \A s \in Slots :
    LET r == slots[s]
        c == carts[r.user]
    IN
    /\ (r.pc = "done" /\ r.op \in {"add", "update", "remove"} /\ r.result = "ok") =>
         /\ c.id # 0
         /\ c.total_amount = SumAmount(c.items)
         /\ c.updated_at = now
    /\ (Done(s, "get") /\ c.id = r.cart0.id) => c.updated_at = r.cart0.updated_at

\* C22 witness: an update_item_quantity to 2 has succeeded on a cart of two
\* items that was last touched at an earlier time
C22_Witness ==
  \E s \in Slots :
    /\ Done(s, "update")
    /\ slots[s].result = "ok"
    /\ slots[s].qty = 2
    /\ Len(carts[slots[s].user].items) = 2
    /\ slots[s].cart0.updated_at < now
    /\ carts[slots[s].user].total_amount > slots[s].cart0.total_amount

\* every item that a step keeps in a cart keeps its price and product_name
ItemsKeepSnapshots ==
  \A u \in Users :
    \A i \in 1..Len(carts[u].items), j \in 1..Len(carts'[u].items) :
      carts[u].items[i].id = carts'[u].items[j].id =>
        /\ carts'[u].items[j].price = carts[u].items[i].price
        /\ carts'[u].items[j].product_name = carts[u].items[i].product_name

\* no cart holds two items of one variant of the product
OneItemPerVariant ==
  \A u \in Users :
    \A i, j \in 1..Len(carts[u].items) :
      carts[u].items[i].variant_id = carts[u].items[j].variant_id => i = j

\* C23: no step changes the price or the product_name of an item that stays
\* in a cart, whether the step changes the product or adds to the item, and
\* no step leaves a cart with two items of the same product and variant
C23_Snapshots == [][ItemsKeepSnapshots /\ OneItemPerVariant']_vars

\* C23 witness: after the price and the name of the product were changed, an
\* add_item has raised the quantity of an item that still has the old ones
C23_Witness ==
  \E s \in Slots :
    /\ Done(s, "add")
    /\ slots[s].result = "ok"
    /\ slots[s].price # InitPrice
    /\ slots[s].name # InitName
    /\ Len(carts[slots[s].user].items) = 1
    /\ carts[slots[s].user].items[1].quantity = 2
    /\ carts[slots[s].user].items[1].price = InitPrice
    /\ carts[slots[s].user].items[1].product_name = InitName

StatusOps == {"admin_status", "bot_status", "bot_accept", "bot_cancel"}

\* C25: on each cancellation path, when the write of the status canceled is
\* the next call of the request, or has committed, every item of the order
\* that the request read has been restored
C25_RestoreBeforeWrite ==
  \A s \in Slots :
    LET r == slots[s] IN
    ( /\ r.op \in CancelOps
      /\ r.new_status = "canceled"
      /\ r.doc.status # "canceled"
      /\ r.pc = "status_write" \/ (r.pc = "done" /\ r.result = "ok") ) =>
      r.restored = Len(r.doc.items)

\* C25 witness: the status callback has canceled an order of two items
C25_Witness ==
  \E s \in Slots :
    /\ Done(s, "bot_status")
    /\ slots[s].new_status = "canceled"
    /\ slots[s].result = "ok"
    /\ orders[slots[s].order_id].status = "canceled"
    /\ slots[s].doc.status # "canceled"
    /\ slots[s].restored = 2

\* C26: an order that was canceled once, after status writes of its
\* cancellation had failed, has had its items restored once
C26_RestoreOnce ==
  \A o \in DOMAIN orders :
    (orders[o].status = "canceled" /\ orders[o].failed > 0 /\ orders[o].cancels = 1)
      => orders[o].restores = 1

\* C27: through each of the three entry points a cancellation of an order
\* that is new, processing, accepted or shipped succeeds, and a cancellation
\* of an order that is done is rejected
C27_SameSources ==
  \A s \in Slots :
    LET r == slots[s] IN
    (r.pc = "done" /\ r.op \in CancelOps /\ r.new_status = "canceled") =>
      /\ r.doc.status \in {"new", "processing", "accepted", "shipped"} =>
           r.result = "ok" /\ orders[r.order_id].status = "canceled"
      /\ r.doc.status = "done" =>
           r.result # "ok" /\ orders[r.order_id].status = "done"

\* C28: every request that has committed a status update, through the admin
\* endpoint or a bot callback, has attempted to notify the customer
C28_Notified ==
  \A s \in Slots :
    (slots[s].pc = "done" /\ slots[s].op \in StatusOps /\ slots[s].result = "ok") =>
      slots[s].notify \in NotifyOutcomes

NotifyFailed(r) == r.notify \in {"refused", "raised"}

\* C29: when the notification of the admins fails or raises, create_order
\* answers with the order, the order is stored and the cart is deleted; when
\* the notification of the customer fails or raises, the status that a bot
\* callback wrote stays and the webhook answers ok
C29_NotifyFailure ==
  \A s \in Slots :
    LET r == slots[s] IN
    /\ (Done(s, "order") /\ NotifyFailed(r)) =>
         /\ r.result = "ok"
         /\ r.order_id \in DOMAIN orders
         /\ orders[r.order_id].items = r.cart0.items
         /\ carts[r.user] = NoCart
    /\ (r.pc = "done" /\ r.op \in StatusOps /\ NotifyFailed(r)) =>
         /\ r.result = "ok"
         /\ orders[r.order_id].status = r.new_status

\* C29 witness: the notification of the customer has raised after the legacy
\* cancel callback wrote its status
C29_Witness ==
  \E s \in Slots :
    /\ Done(s, "bot_cancel")
    /\ slots[s].notify = "raised"
    /\ orders[slots[s].order_id].status = "canceled"
    /\ slots[s].doc.status = "processing"

\* C30: update_address on an order that it reads as accepted, shipped, done
\* or canceled is rejected and leaves the order as it is, and an
\* update_address that has written the address has written it to an order
\* that is processing
C30_AddressOnlyProcessing ==
  \A s \in Slots :
    Done(s, "address") =>
      LET r == slots[s] IN
      /\ r.doc.status \in {"accepted", "shipped", "done", "canceled"} =>
           r.result # "ok" /\ orders[r.order_id] = r.doc
      /\ r.result = "ok" => orders[r.order_id].status = "processing"

\* ---- the requests of one customer taken while another of them is suspended
OnlyCustomer(u) ==
  /\ \A w \in Users \ {u} : carts[w].id = 0 /\ cart_docs[w] = 0
  /\ \A o \in DOMAIN orders : orders[o].user_id = u
  /\ \A s \in Slots : slots[s].user \in {u, ""}

\* C31: when only one customer has ever sent requests and none is in flight,
\* no variant has lost stock that neither that customer's cart nor a
\* non-canceled order holds: stock plus held quantities is at least the
\* quantity the variant started with
C31_NoLeakSameUser ==
  \A u \in Users :
    (AllIdle /\ OnlyCustomer(u)) =>
      \A v \in Variants :
        variants[v] + Held(carts[u].items, v) + OrdersHeld(DOMAIN orders, v)
          >= InitStock

\* ---- the variant whose stock the next database call of a request changes
ActingVariant(r) ==
  CASE r.pc \in {"deduct_write", "upd_restore", "rm_restore"} -> r.variant
    [] r.pc = "cleanup_restore" -> r.cart.items[r.idx].variant_id
    [] r.pc = "status_restore" -> r.doc.items[r.idx].variant_id
    [] OTHER -> ""

\* C32: a step changes the stock of a variant only when it is the stock
\* change (reservation by add or update, release by update, remove, expiry or
\* cancellation) of a request acting on that very variant; the quantity of
\* every other variant of the product is left as it was, also when requests
\* on the sibling variant are in flight
C32_OnlyOwnVariant ==
  [][\A w \in Variants :
       variants'[w] # variants[w] =>
         \E s \in Slots : slots'[s] # slots[s] /\ ActingVariant(slots[s]) = w]_vars

\* ---- the sweep
Removed(o) == o \in DOMAIN orders /\ o \notin DOMAIN orders'

\* C33: an order leaves the collection only in a purge step of the sweep, and
\* only when its deleted_at marker is set and at least PURGE_GRACE_MINUTES
\* old; an order without the marker is never removed, whatever its status
C33_TwoPhaseDelete ==
  [][\A o \in SweepOrderIds :
       Removed(o) =>
         /\ sweep.pc = "purge" /\ sweep.batch[sweep.idx].id = o
         /\ orders[o].deleted_at # NoDate
         /\ orders[o].deleted_at + PURGE_GRACE_MINUTES <= now]_vars

\* an order has been purged while another, of any status, that was never
\* marked is still stored
C33_Witness ==
  \E o, k \in SweepOrderIds :
    /\ o \notin DOMAIN orders
    /\ k \in DOMAIN orders /\ orders[k].deleted_at = NoDate
    /\ now >= PURGE_GRACE_MINUTES

\* C34: an order whose deleted_at is at least PURGE_GRACE_MINUTES old is
\* eventually purged, provided the order's own purge does not fail forever,
\* whatever happens to the purges of the other orders
Due(o) ==
  o \in DOMAIN orders /\ DueForPurge(orders[o], now - PURGE_GRACE_MINUTES)

C34_SweepLiveness ==
  \A o \in SweepOrderIds :
    SF_vars(PurgeOk(o)) => (Due(o) ~> (o \notin DOMAIN orders))

\* ---- the catalog cache
\* a call without force_refresh that missed the cache and waited for the lock
\* while another such call of its process loaded the catalog and stored it,
\* the version token being what it was when the call began
WaitedForLoad(t) ==
  /\ tasks[t].op = "fetch" /\ ~tasks[t].force
  /\ tasks[t].seen # NoPayload
  /\ cache_state = tasks[t].token0

\* C35: a call that waited for the lock while a concurrent call loaded the
\* catalog does not load it again and returns the payload that call stored,
\* as long as the version token is unchanged
C35_SingleFlight ==
  \A t \in Tasks :
    WaitedForLoad(t) =>
      /\ tasks[t].pc \notin {"load", "load_second"}
      /\ tasks[t].pc = "done" => (~tasks[t].loaded /\ tasks[t].payload = tasks[t].seen)

\* C35 amended: the same, as long as moreover the entry that the concurrent
\* call stored was not expired when stored (its expiration counts from the
\* clock read before the load) and has neither expired nor been cleared by an
\* invalidation since
C35_SingleFlightAmended ==
  \A t \in Tasks :
    (WaitedForLoad(t) /\ ~tasks[t].disturbed) =>
      /\ tasks[t].pc \notin {"load", "load_second"}
      /\ tasks[t].pc = "done" => (~tasks[t].loaded /\ tasks[t].payload = tasks[t].seen)

C35_Witness ==
  \E t \in Tasks :
    /\ WaitedForLoad(t) /\ ~tasks[t].disturbed
    /\ tasks[t].pc = "done" /\ tasks[t].payload = tasks[t].seen

\* C36: a fetch_catalog call that began after a mutation had written its data
\* and its version bump returns a payload that holds that write
C36_Fresh ==
  \A t \in Tasks :
    (tasks[t].op = "fetch" /\ tasks[t].pc = "done" /\ tasks[t].result = "ok") =>
      \A c \in Collections : tasks[t].payload[c] >= tasks[t].bumped0[c]

\* C40: the version stored next to a cached payload is the version that the
\* task that stored the payload had read before it loaded
C40_PairedVersion ==
  \A p \in Procs :
    cache[p].payload # NoPayload => cache[p].version = cache[p].read

\* C37: the queue of a subscriber is bounded: it never holds more events
\* than its bound, a subscriber whose queue is full at a broadcast being
\* unregistered instead of receiving the event (QueueBound stands for the
\* bound; the claim holds for none if it fails for this one)
C37_BoundedQueues ==
  \A r \in StoreReqs : Len(queues[r]) <= QueueBound

\* C38: the events that a stream yields are in the order of the statuses:
\* the snapshot first, then the statuses published later, so that no event
\* is older than the one yielded before it (stated for a collection that
\* holds one document at most, as C39 has it)
C38_SubscriberOrder ==
  Len(store_status) <= 1 =>
    \A r \in StoreReqs :
      \A i \in 1..(Len(received[r]) - 1) : received[r][i] <= received[r][i + 1]

\* C39: the store_status collection holds one document at most
C39_Singleton ==
  Len(store_status) <= 1
====
